---- MODULE Spec2Model ----
(***************************************************************************)
(* A model of the client-side core of AlterEcho (Elytride/Nulltale):       *)
(*   - the voice-call audio sequencer and recognition loop of              *)
(*     src/components/layout/ChatInterface.jsx,                            *)
(*   - the streaming event loop of streamVoiceCall / refreshAIMemory       *)
(*     in src/lib/api.js,                                                  *)
(*   - the IndexedDB store of src/lib/storage.js together with the         *)
(*     sendMessage operation and the embeddings-cache flag of api.js,      *)
(*   - the settings row of storage.js,                                     *)
(*   - the handling of the response inside one sendMessage.                *)
(* Each part has its own specification (SpecCall, SpecStream, SpecStore,   *)
(* SpecSettings, SpecReply); the variables of the other parts stay at      *)
(* their initial values.                                                   *)
(***************************************************************************)
EXTENDS Integers, Sequences, FiniteSets, TLC

(***************************************************************************)
(* Bounds of the model                                                     *)
(***************************************************************************)
\* voice turns (calls of handleVoiceResponse) in one behaviour
MaxTurns == 2
\* 'audio' events the backend sends in one turn
MaxChunks == 2
\* SpeechRecognition instances created in one behaviour
MaxRecs == 2
\* calls the user starts in one behaviour
MaxCalls == 1
\* lines in one response body
MaxLines == 3
\* bytes one reader.read() returns
MaxRead == 8
\* calls of sendMessage, streamVoiceCall and refreshAIMemory in one behaviour
MaxOps == 2
\* operations on the store in flight at one time
MaxInFlight == 2
\* calls of deleteSession in one behaviour
MaxDeletes == 1
\* calls of saveSettings in one behaviour
MaxSaves == 2
MaxReplies == 2
MaxImageCalls == 3
MaxUpdates == 2
MaxElapsedDays == 9
MaxBatch == 2
MaxApiCalls == 4
MaxUiOps == 2
MaxStoredAtLoad == 21
MaxHistSends == 2
MaxListenRecs == 3
MsPerDay == 86400000
ExpiryDays == 7
WarningDays == 2
PreviewLimit == 50
HistoryLimit == 20

(***************************************************************************)
(* Part 1: voice call (ChatInterface.jsx)                                  *)
(***************************************************************************)
VARIABLES
    isCallActive,     \* isCallActiveRef.current
    callStatus,       \* callStatusRef.current
    recs,             \* the SpeechRecognition instances, in creation order;
                      \* recognitionRef.current is the last one
    listenTimers,     \* pending setTimeout(() => startListening(), ..)
    turns,            \* the streamVoiceCall call of each voice turn
    audioQueue,       \* audioQueueRef.current: decoded buffers
    isPlaying,        \* isPlayingRef.current
    source,           \* the buffer source that has started and not ended
    pendingDecodes,   \* pendingDecodesRef.current
    decoding,         \* chunks whose decodeAudioData promise is pending
    onAudioFinished,  \* onAudioFinishedRef.current (the turn that set it)
    checkTimers,      \* pending setTimeout(() => playNextInQueue(), 100)
    callsStarted,     \* history: calls started by handleCallToggle
    played,           \* history: chunks in the order source.start was called
    finishedCalls,    \* history: invocations of the callback each turn set
    armedIdle,        \* history: turns whose callback was registered with
                      \* nothing queued, decoding or playing, and since
                      \* then the call has stayed active, no chunk has
                      \* arrived and no later 'done' has replaced it
    cancelled,        \* history: turns whose callback was pending when the
                      \* user ended the call
    lateChunks,       \* history: chunks whose 'audio' event arrived while
                      \* no call was active
    dropped,          \* history: chunks whose decode failed
    live              \* history: the buffers whose source has started and
                      \* has not ended

callVars == <<isCallActive, callStatus, recs, listenTimers, turns, audioQueue,
              isPlaying, source, pendingDecodes, decoding, onAudioFinished,
              checkTimers, callsStarted, played, finishedCalls, armedIdle,
              cancelled, lateChunks, dropped, live>>

\* The streaming loop (Part 2)
VARIABLES
    mode,        \* "voice" (streamVoiceCall) or "refresh" (refreshAIMemory)
    handlers,    \* the callbacks the caller supplied
    events,      \* the lines the backend wrote, in order
    terminated,  \* whether the backend ended the last line with a newline
    wire,        \* their encoding: the bytes of the response body
    pos,         \* bytes already returned by reader.read()
    undecoded,   \* bytes the TextDecoder holds back ({stream: true})
    buffer,      \* the local variable buffer
    dispatched,  \* history: the callbacks invoked, in order
    carried,     \* history: some read ended inside a line or a character
    streamPc     \* "idle", "reading" or "done" (the loop left by break)

streamVars == <<mode, handlers, events, terminated, wire, pos, undecoded,
                buffer, dispatched, carried, streamPc>>

\* The store and the calls that use it (Part 3)
VARIABLES
    sessions,        \* db.sessions: Row(session) of each id, or NoRow
    messages,        \* db.messages: Row(message list) of each id, or NoRow
    preprocessed,    \* db.preprocessed: Row(artifact) of each id, or NoRow
    uploads,         \* db.uploads: rows [id, session_id, type]
    images,          \* db.images: rows [id, session_id, image_id, source]
    imagesKey,       \* the key generator of db.images ('++id')
    cachedSessions,  \* the module-level Set of api.js
    ops,             \* the calls of sendMessage, streamVoiceCall and
                     \* refreshAIMemory
    del,             \* the call of deleteSession
    deletes          \* calls of deleteSession so far

storeVars == <<sessions, messages, preprocessed, uploads, images, imagesKey,
               cachedSessions, ops, del, deletes>>

\* The settings row (Part 4)
VARIABLES
    settings,   \* db.settings: Row(data) under id 1, or NoRow
    save,       \* the call of saveSettings
    saves       \* calls of saveSettings so far

settingsVars == <<settings, save, saves>>

\* One sendMessage from its response on (Part 5)
VARIABLES
    file,            \* whether sendMessage was given a file
    response,        \* history: the body of the response, as parsed
    result,          \* the local variable result
    originals,       \* originalUserImages, originalAiMessagesImages and
                     \* originalAiMessageImages
    stored,          \* the message list of the session in db.messages
    listBefore,      \* history: that list when sendMessage was called
    gallery,         \* the image ids of the session in db.images
    sessionPreview,  \* the preview of the session row
    aiIndex,         \* the variable i of the loop over result.ai_messages
    replyPc          \* the position of sendMessage

replyVars == <<file, response, result, originals, stored, listBefore, gallery,
               sessionPreview, aiIndex, replyPc>>

\* The images table and the calls of saveImage (Part 6)
VARIABLES
    imageRows,    \* db.images: rows [id, session_id, image_id, data]
    imageKey,     \* the key generator of db.images ('++id')
    imageCalls,   \* the calls of saveImage
    lastSaved     \* history: for each (session, image id), the data of the
                  \* saveImage that returned last, 0 before any

imageVars == <<imageRows, imageKey, imageCalls, lastSaved>>

\* The sessions table and the calls of updateSession (Part 7)
VARIABLES
    sessionTable,  \* db.sessions: Row(session) of each id, or NoRow
    update,        \* the call of updateSession
    updates        \* calls of updateSession so far

updateVars == <<sessionTable, update, updates>>

\* One call of getVoiceStatus (Part 8)
VARIABLES
    voiceRow,     \* the row of the session in db.sessions, or NoRow
    now,          \* Date.now() at the call, in milliseconds
    voiceSession, \* the local variable session
    voiceStatus,  \* the object getVoiceStatus returns
    voicePc       \* the position of getVoiceStatus

voiceVars == <<voiceRow, now, voiceSession, voiceStatus, voicePc>>

\* The uploads table and the calls that use it (Part 9)
VARIABLES
    uploadRows,  \* db.uploads: rows [id, session_id, type, file_id,
                 \* original_name, subject]
    uploadKey,   \* the key generator of db.uploads ('++id')
    fileIds,     \* the file ids generateId(12) has produced
    batch,       \* the call of uploadFile
    ready,       \* the last call of checkRefreshReady
    apiCalls     \* calls made so far

uploadVars == <<uploadRows, uploadKey, fileIds, batch, ready, apiCalls>>

\* The warm-up requests of the calls (Part 10)
VARIABLES
    warmups      \* the calls of warmupModels(), in the order they were made

warmupVars == <<warmups>>

\* The destructive actions of the user interface (Part 11)
VARIABLES
    uiStore,        \* the tables: the sessions that have a row in each, and
                    \* the number of messages of each session
    shownSessions,  \* Sidebar: sessions
    activeSession,  \* Sidebar: activeSession
    chatSession,    \* ChatInterface: sessionId
    shownMessages,  \* ChatInterface: the number of messages displayed
    needFetch,      \* the effect fetchMessages is due
    uiOps           \* the runs of handleClearChat and handleDeleteSession

uiVars == <<uiStore, shownSessions, activeSession, chatSession, shownMessages,
            needFetch, uiOps>>

\* The history a chat request carries (Part 12)
VARIABLES
    histList,    \* db.messages: the stored list of the session, as ids
    histIds,     \* the message ids given out so far
    histOps      \* the calls of sendMessage

histVars == <<histList, histIds, histOps>>

\* The recognition instances a call may create (Part 13)
VARIABLES
    recLimit     \* the number of SpeechRecognition instances the model
                 \* follows

listenVars == <<recLimit>>

\* The variables of parts 6 and later
laterVars == <<imageVars, updateVars, voiceVars, uploadVars, warmupVars,
               uiVars, histVars, listenVars>>

\* The later parts but one.
besidesImages ==
    <<updateVars, voiceVars, uploadVars, warmupVars, uiVars, histVars,
      listenVars>>
besidesUpdates ==
    <<imageVars, voiceVars, uploadVars, warmupVars, uiVars, histVars,
      listenVars>>
besidesVoice ==
    <<imageVars, updateVars, uploadVars, warmupVars, uiVars, histVars,
      listenVars>>
besidesUploads ==
    <<imageVars, updateVars, voiceVars, warmupVars, uiVars, histVars,
      listenVars>>
besidesWarmups ==
    <<imageVars, updateVars, voiceVars, uploadVars, uiVars, histVars,
      listenVars>>
besidesUi ==
    <<imageVars, updateVars, voiceVars, uploadVars, warmupVars, histVars,
      listenVars>>
besidesHist ==
    <<imageVars, updateVars, voiceVars, uploadVars, warmupVars, uiVars,
      listenVars>>

vars == <<callVars, streamVars, storeVars, settingsVars, replyVars, laterVars>>


Turns == 1..MaxTurns
Chunk(t, k) == <<t, k>>
NoChunk == <<0, 0>>
NoCallback == 0

\* The refs and state a synchronous run of the call handlers reads and writes.
CallState ==
    [queue |-> audioQueue, playing |-> isPlaying, src |-> source,
     pending |-> pendingDecodes, cb |-> onAudioFinished,
     active |-> isCallActive, status |-> callStatus, recs |-> recs,
     played |-> played, calls |-> finishedCalls, live |-> live]

SetCallState(s) ==
    /\ audioQueue' = s.queue
    /\ isPlaying' = s.playing
    /\ source' = s.src
    /\ pendingDecodes' = s.pending
    /\ onAudioFinished' = s.cb
    /\ isCallActive' = s.active
    /\ callStatus' = s.status
    /\ recs' = s.recs
    /\ played' = s.played
    /\ finishedCalls' = s.calls
    /\ live' = s.live

\* The model creates at most recLimit recognition instances.
Fits(s) == Len(s.recs) <= recLimit

\* startListening: a new recognition instance replaces recognitionRef.current
\* and is started (a browser with speech recognition is assumed).
StartListening(s) == [s EXCEPT !.recs = Append(@, "new")]

\* The callback onDone stores in onAudioFinishedRef.
AudioFinished(s) ==
    IF s.active THEN StartListening([s EXCEPT !.status = "listening"]) ELSE s

\* playNextInQueue without the pendingDecodesRef test.
PlayNextIgnoringDecodes(s) ==
    IF s.playing THEN s
    ELSE IF Len(s.queue) = 0
         THEN IF s.cb # NoCallback
              THEN AudioFinished([s EXCEPT !.cb = NoCallback,
                                           !.calls[s.cb] = @ + 1])
              ELSE s
         ELSE [s EXCEPT !.playing = TRUE,
                        !.src = Head(s.queue),
                        !.queue = Tail(s.queue),
                        !.played = Append(@, Head(s.queue)),
                        !.live = @ \cup {Head(s.queue)}]

\* playNextInQueue without the isPlayingRef test.
PlayNextUnguarded(s) ==
    IF Len(s.queue) = 0
    THEN IF s.pending = 0 /\ s.cb # NoCallback
         THEN AudioFinished([s EXCEPT !.cb = NoCallback,
                                      !.calls[s.cb] = @ + 1])
         ELSE s
    ELSE [s EXCEPT !.playing = TRUE,
                   !.src = Head(s.queue),
                   !.queue = Tail(s.queue),
                   !.played = Append(@, Head(s.queue)),
                   !.live = @ \cup {Head(s.queue)}]

\* playNextInQueue
PlayNextInQueue(s) ==
    IF s.playing THEN s
    ELSE IF Len(s.queue) = 0
         THEN IF s.pending = 0 /\ s.cb # NoCallback
              THEN AudioFinished([s EXCEPT !.cb = NoCallback,
                                           !.calls[s.cb] = @ + 1])
              ELSE s
         ELSE [s EXCEPT !.playing = TRUE,
                        !.src = Head(s.queue),
                        !.queue = Tail(s.queue),
                        !.played = Append(@, Head(s.queue)),
                        !.live = @ \cup {Head(s.queue)}]

\* playAudioChunk with the decrement and playNextInQueue at the end of the
\* try block instead of in a finally block.
DecodeSettledInTry(s, c, ok) ==
    IF ok THEN PlayNextInQueue([s EXCEPT !.queue = Append(@, c),
                                         !.pending = @ - 1])
    ELSE s

\* The finally block of playAudioChunk, after the decode has settled.
DecodeSettled(s, c, ok) ==
    PlayNextInQueue([s EXCEPT !.queue = IF ok THEN Append(@, c) ELSE @,
                              !.pending = @ - 1])

\* onError of handleVoiceResponse
VoiceError(s) ==
    LET t == [s EXCEPT !.status = "listening"]
    IN  IF t.active THEN StartListening(t) ELSE t

CallInit ==
    /\ isCallActive = FALSE
    /\ callStatus = "idle"
    /\ recs = <<>>
    /\ listenTimers = 0
    /\ turns = [t \in Turns |-> [st |-> "none", sent |-> 0]]
    /\ audioQueue = <<>>
    /\ isPlaying = FALSE
    /\ source = NoChunk
    /\ pendingDecodes = 0
    /\ decoding = {}
    /\ onAudioFinished = NoCallback
    /\ checkTimers = {}
    /\ callsStarted = 0
    /\ played = <<>>
    /\ finishedCalls = [t \in Turns |-> 0]
    /\ armedIdle = {}
    /\ cancelled = {}
    /\ lateChunks = {}
    /\ dropped = {}
    /\ live = {}

\* warmupModels() has been called: its request is in flight.
WarmupCalled == [pc |-> "fetching", outcome |-> "", value |-> ""]

\* handleCallToggle, the call being idle: warmupModels() is called and not
\* awaited, and the call starts.
CallStart ==
    /\ ~isCallActive
    /\ callsStarted < MaxCalls
    /\ callsStarted' = callsStarted + 1
    /\ LET s == StartListening([CallState EXCEPT !.active = TRUE,
                                                 !.status = "listening"])
       IN  Fits(s) /\ SetCallState(s)
    /\ warmups' = Append(warmups, WarmupCalled)
    /\ UNCHANGED <<listenTimers, turns, decoding, checkTimers, armedIdle,
                   cancelled, lateChunks, dropped>>
    /\ UNCHANGED <<streamVars, storeVars, settingsVars, replyVars>>
    /\ UNCHANGED besidesWarmups

\* Ending the call without clearing onAudioFinishedRef.
CallEndKeepingCallback ==
    /\ isCallActive
    /\ SetCallState([CallState EXCEPT !.active = FALSE, !.status = "idle",
                                      !.queue = <<>>])
    /\ armedIdle' = {}
    /\ cancelled' = IF onAudioFinished = NoCallback THEN cancelled
                    ELSE cancelled \cup {onAudioFinished}
    /\ UNCHANGED <<lateChunks, dropped>>
    /\ UNCHANGED <<callsStarted, listenTimers, turns, decoding, checkTimers>>
    /\ UNCHANGED <<streamVars, storeVars, settingsVars, replyVars, laterVars>>

\* handleCallToggle, the call being active: end the call.
CallEnd ==
    /\ isCallActive
    /\ SetCallState([CallState EXCEPT !.active = FALSE, !.status = "idle",
                                      !.queue = <<>>, !.cb = NoCallback])
    /\ armedIdle' = {}
    /\ cancelled' = IF onAudioFinished = NoCallback THEN cancelled
                    ELSE cancelled \cup {onAudioFinished}
    /\ UNCHANGED <<lateChunks, dropped>>
    /\ UNCHANGED <<callsStarted, listenTimers, turns, decoding, checkTimers>>
    /\ UNCHANGED <<streamVars, storeVars, settingsVars, replyVars, laterVars>>

\* recognition.onstart
RecOnStart(r) ==
    /\ recs[r] = "new"
    /\ SetCallState([CallState EXCEPT !.recs[r] = "listening",
                                      !.status = "listening"])
    /\ UNCHANGED <<callsStarted, listenTimers, turns, decoding, checkTimers, armedIdle,
                   cancelled, lateChunks, dropped>>
    /\ UNCHANGED <<streamVars, storeVars, settingsVars, replyVars, laterVars>>

\* recognition.onresult and the synchronous start of handleVoiceResponse
RecOnResult(r) ==
    /\ recs[r] = "listening"
    /\ \E t \in Turns :
        /\ turns[t].st = "none"
        /\ \A u \in Turns : u < t => turns[u].st # "none"
        /\ turns' = [turns EXCEPT ![t].st = "fetching"]
    /\ SetCallState([CallState EXCEPT !.recs[r] = "resulted",
                                      !.status = "processing",
                                      !.queue = <<>>])
    /\ UNCHANGED <<callsStarted, listenTimers, decoding, checkTimers, armedIdle,
                   cancelled, lateChunks, dropped>>
    /\ UNCHANGED <<streamVars, storeVars, settingsVars, replyVars, laterVars>>

\* recognition.onerror that only logs the error.
RecOnErrorSilent(r, aborted) ==
    /\ recs[r] \in {"new", "listening"}
    /\ recs' = [recs EXCEPT ![r] = IF aborted THEN "aborted" ELSE "errored"]
    /\ UNCHANGED <<isCallActive, callStatus, listenTimers, turns, audioQueue,
                   isPlaying, source, pendingDecodes, decoding,
                   onAudioFinished, checkTimers, callsStarted, played,
                   finishedCalls, armedIdle, cancelled, lateChunks, dropped,
                   live>>
    /\ UNCHANGED <<streamVars, storeVars, settingsVars, replyVars, laterVars>>

\* recognition.onerror
RecOnError(r, aborted) ==
    /\ recs[r] \in {"new", "listening"}
    /\ recs' = [recs EXCEPT ![r] = IF aborted THEN "aborted" ELSE "errored"]
    /\ listenTimers' = IF isCallActive /\ ~aborted
                       THEN listenTimers + 1 ELSE listenTimers
    /\ UNCHANGED <<isCallActive, callStatus, turns, audioQueue, isPlaying,
                   source, pendingDecodes, decoding, onAudioFinished,
                   checkTimers, callsStarted, played, finishedCalls, armedIdle,
                   cancelled, lateChunks, dropped, live>>
    /\ UNCHANGED <<streamVars, storeVars, settingsVars, replyVars, laterVars>>

\* recognition.onend
RecOnEnd(r) ==
    /\ recs[r] # "ended"
    /\ recs' = [recs EXCEPT ![r] = "ended"]
    /\ listenTimers' = IF isCallActive /\ callStatus = "listening"
                       THEN listenTimers + 1 ELSE listenTimers
    /\ UNCHANGED <<isCallActive, callStatus, turns, audioQueue, isPlaying,
                   source, pendingDecodes, decoding, onAudioFinished,
                   checkTimers, callsStarted, played, finishedCalls, armedIdle,
                   cancelled, lateChunks, dropped, live>>
    /\ UNCHANGED <<streamVars, storeVars, settingsVars, replyVars, laterVars>>

\* A timer set by onerror or onend fires: startListening.
ListenTimer ==
    /\ listenTimers > 0
    /\ listenTimers' = listenTimers - 1
    /\ LET s == StartListening(CallState) IN Fits(s) /\ SetCallState(s)
    /\ UNCHANGED <<callsStarted, turns, decoding, checkTimers, armedIdle,
                   cancelled, lateChunks, dropped>>
    /\ UNCHANGED <<streamVars, storeVars, settingsVars, replyVars, laterVars>>

\* streamVoiceCall: the request is answered; a failed or non-2xx request
\* reaches the catch block, which calls onError.
StreamResponse(t, ok) ==
    /\ turns[t].st = "fetching"
    /\ turns' = [turns EXCEPT ![t].st = IF ok THEN "open" ELSE "closed"]
    /\ LET s == IF ok THEN CallState ELSE VoiceError(CallState)
       IN  Fits(s) /\ SetCallState(s)
    /\ UNCHANGED <<callsStarted, listenTimers, decoding, checkTimers, armedIdle,
                   cancelled, lateChunks, dropped>>
    /\ UNCHANGED <<streamVars, storeVars, settingsVars, replyVars, laterVars>>

\* An 'audio' event: onAudio and playAudioChunk up to its await; atob throws
\* on a payload that is not base64, which runs the finally block at once.
StreamAudio(t, isBase64) ==
    /\ turns[t].st = "open"
    /\ turns[t].sent < MaxChunks
    /\ turns' = [turns EXCEPT ![t].sent = @ + 1]
    /\ LET c == Chunk(t, turns[t].sent + 1)
           s == [CallState EXCEPT !.status = "speaking", !.pending = @ + 1]
           u == IF isBase64 THEN s ELSE DecodeSettled(s, c, FALSE)
       IN  /\ Fits(u)
           /\ SetCallState(u)
           /\ decoding' = IF isBase64 THEN decoding \cup {c} ELSE decoding
           /\ lateChunks' = IF isCallActive THEN lateChunks
                            ELSE lateChunks \cup {c}
           /\ dropped' = IF isBase64 THEN dropped ELSE dropped \cup {c}
    /\ armedIdle' = {}
    /\ UNCHANGED cancelled
    /\ UNCHANGED <<callsStarted, listenTimers, checkTimers>>
    /\ UNCHANGED <<streamVars, storeVars, settingsVars, replyVars, laterVars>>

\* decodeAudioData settles for chunk c.
DecodeDone(c, ok) ==
    /\ c \in decoding
    /\ decoding' = decoding \ {c}
    /\ LET s == DecodeSettled(CallState, c, ok)
       IN  Fits(s) /\ SetCallState(s)
    /\ dropped' = IF ok THEN dropped ELSE dropped \cup {c}
    /\ UNCHANGED <<callsStarted, listenTimers, turns, checkTimers, armedIdle,
                   cancelled, lateChunks>>
    /\ UNCHANGED <<streamVars, storeVars, settingsVars, replyVars, laterVars>>

\* source.onended
SourceEnded ==
    /\ source # NoChunk
    /\ LET s == PlayNextInQueue([CallState EXCEPT !.playing = FALSE,
                                                  !.src = NoChunk,
                                                  !.live = @ \ {source}])
       IN  Fits(s) /\ SetCallState(s)
    /\ UNCHANGED <<callsStarted, listenTimers, turns, decoding, checkTimers, armedIdle,
                   cancelled, lateChunks, dropped>>
    /\ UNCHANGED <<streamVars, storeVars, settingsVars, replyVars, laterVars>>

\* onDone without its setTimeout(() => playNextInQueue(), 100).
StreamDoneNoCheck(t) ==
    /\ turns[t].st = "open"
    /\ turns' = [turns EXCEPT ![t].st = "ending"]
    /\ onAudioFinished' = t
    /\ armedIdle' = IF /\ isCallActive
                       /\ audioQueue = <<>>
                       /\ pendingDecodes = 0
                       /\ ~isPlaying
                    THEN (armedIdle \ {onAudioFinished}) \cup {t}
                    ELSE armedIdle \ {onAudioFinished}
    /\ UNCHANGED <<cancelled, lateChunks, dropped>>
    /\ UNCHANGED <<callsStarted, isCallActive, callStatus, recs, listenTimers,
                   audioQueue, isPlaying, source, pendingDecodes, decoding,
                   checkTimers, played, finishedCalls, live>>
    /\ UNCHANGED <<streamVars, storeVars, settingsVars, replyVars, laterVars>>

\* The 'done' event: onDone registers the callback and defers a check.
StreamDone(t) ==
    /\ turns[t].st = "open"
    /\ turns' = [turns EXCEPT ![t].st = "ending"]
    /\ onAudioFinished' = t
    /\ checkTimers' = checkTimers \cup {t}
    /\ armedIdle' = IF /\ isCallActive
                       /\ audioQueue = <<>>
                       /\ pendingDecodes = 0
                       /\ ~isPlaying
                    THEN (armedIdle \ {onAudioFinished}) \cup {t}
                    ELSE armedIdle \ {onAudioFinished}
    /\ UNCHANGED <<cancelled, lateChunks, dropped>>
    /\ UNCHANGED <<callsStarted, isCallActive, callStatus, recs, listenTimers, audioQueue,
                   isPlaying, source, pendingDecodes, decoding, played,
                   finishedCalls, live>>
    /\ UNCHANGED <<streamVars, storeVars, settingsVars, replyVars, laterVars>>

\* The deferred check of onDone fires.
CheckTimer(t) ==
    /\ t \in checkTimers
    /\ checkTimers' = checkTimers \ {t}
    /\ LET s == PlayNextInQueue(CallState) IN Fits(s) /\ SetCallState(s)
    /\ UNCHANGED <<callsStarted, listenTimers, turns, decoding, armedIdle,
                   cancelled, lateChunks, dropped>>
    /\ UNCHANGED <<streamVars, storeVars, settingsVars, replyVars, laterVars>>

\* The 'error' event: onError.
StreamError(t) ==
    /\ turns[t].st = "open"
    /\ turns' = [turns EXCEPT ![t].st = "ending"]
    /\ LET s == VoiceError(CallState) IN Fits(s) /\ SetCallState(s)
    /\ UNCHANGED <<callsStarted, listenTimers, decoding, checkTimers, armedIdle,
                   cancelled, lateChunks, dropped>>
    /\ UNCHANGED <<streamVars, storeVars, settingsVars, replyVars, laterVars>>

\* reader.read() reports the end of the body: streamVoiceCall returns.
StreamClose(t) ==
    /\ turns[t].st \in {"open", "ending"}
    /\ turns' = [turns EXCEPT ![t].st = "closed"]
    /\ UNCHANGED <<callsStarted, isCallActive, callStatus, recs, listenTimers, audioQueue,
                   isPlaying, source, pendingDecodes, decoding,
                   onAudioFinished, checkTimers, played, finishedCalls,
                   armedIdle,
                   cancelled, lateChunks, dropped, live>>
    /\ UNCHANGED <<streamVars, storeVars, settingsVars, replyVars, laterVars>>

\* reader.read() rejects: the catch block calls onError.
StreamReadFail(t) ==
    /\ turns[t].st \in {"open", "ending"}
    /\ turns' = [turns EXCEPT ![t].st = "closed"]
    /\ LET s == VoiceError(CallState) IN Fits(s) /\ SetCallState(s)
    /\ UNCHANGED <<callsStarted, listenTimers, decoding, checkTimers, armedIdle,
                   cancelled, lateChunks, dropped>>
    /\ UNCHANGED <<streamVars, storeVars, settingsVars, replyVars, laterVars>>

CallNext ==
    \/ CallStart
    \/ CallEnd
    \/ \E r \in 1..MaxRecs : r <= Len(recs) /\ RecOnStart(r)
    \/ \E r \in 1..MaxRecs : r <= Len(recs) /\ RecOnResult(r)
    \/ \E r \in 1..MaxRecs, a \in BOOLEAN : r <= Len(recs) /\ RecOnError(r, a)
    \/ \E r \in 1..MaxRecs : r <= Len(recs) /\ RecOnEnd(r)
    \/ ListenTimer
    \/ \E t \in Turns, ok \in BOOLEAN : StreamResponse(t, ok)
    \/ \E t \in Turns, b \in BOOLEAN : StreamAudio(t, b)
    \/ \E c \in decoding, ok \in BOOLEAN : DecodeDone(c, ok)
    \/ SourceEnded
    \/ \E t \in Turns : StreamDone(t)
    \/ \E t \in Turns : CheckTimer(t)
    \/ \E t \in Turns : StreamError(t)
    \/ \E t \in Turns : StreamClose(t)
    \/ \E t \in Turns : StreamReadFail(t)

(***************************************************************************)
(* Part 2: the streaming loop of streamVoiceCall and refreshAIMemory       *)
(* (api.js).  The response body is a sequence of bytes; an ASCII           *)
(* character is one byte, written as the character itself, and the         *)
(* character "é" is the two bytes "C3" "A9".                               *)
(***************************************************************************)

Newline == "\n"
Marker == <<"d", "a", "t", "a", ":", " ">>
Whitespace == {" ", "\r", "\t"}
Digit == <<"1", "2", "3", "4", "5", "6", "7", "8", "9">>
DigitChars == {Digit[i] : i \in 1..Len(Digit)}

\* The values of data.type the voice loop knows, "u" standing for any other
\* value; the values of data.step of the refresh loop, "p" standing for
\* every value but "complete" and "error".
Discriminators(m) ==
    IF m = "voice" THEN {"t", "a", "s", "d", "e", "u"} ELSE {"p", "c", "e"}

VoiceHandlers == {"onText", "onAudio", "onStatus", "onDone", "onError"}
RefreshHandlers == {"onProgress", "onComplete", "onError"}
Handlers(m) == IF m = "voice" THEN VoiceHandlers ELSE RefreshHandlers

\* The callbacks a caller supplies: all of them, all but onError, or none.
HandlerSets(m) == {Handlers(m), Handlers(m) \ {"onError"}, {}}

Last(q) == q[Len(q)]
Front(q) == SubSeq(q, 1, Len(q) - 1)

\* The lines a backend writes: a well-formed event, the same ended by CRLF,
\* one whose content is the character "é", a line whose payload is not
\* JSON, and an empty line.
LineKinds(m) ==
    [form : {"event"}, disc : Discriminators(m)]
        \cup [form : {"crlf", "utf8"}, disc : {IF m = "voice" THEN "t" ELSE "p"}]
        \cup [form : {"malformed", "blank"}, disc : {"-"}]

WellFormed(kind) == kind.form \in {"event", "crlf", "utf8"}

\* The content field of the n-th line.
Content(kind, n) == IF kind.form = "utf8" THEN "é" ELSE Digit[n]

\* The bytes of the n-th line, without its newline.
LineBytes(kind, n) ==
    CASE kind.form = "event"     -> Marker \o <<"{", kind.disc, Digit[n], "}">>
      [] kind.form = "crlf"      -> Marker \o <<"{", kind.disc, Digit[n], "}", "\r">>
      [] kind.form = "utf8"      -> Marker \o <<"{", kind.disc, "C3", "A9", "}">>
      [] kind.form = "malformed" -> Marker \o <<"{", "n", "o", "t">>
      [] kind.form = "blank"     -> <<>>

RECURSIVE Encode(_, _, _)
\* The body: every line followed by a newline, the last one only when the
\* backend terminated it.
Encode(ls, n, term) ==
    IF n > Len(ls) THEN <<>>
    ELSE LineBytes(ls[n], n)
            \o (IF n < Len(ls) \/ term THEN <<Newline>> ELSE <<>>)
            \o Encode(ls, n + 1, term)

RECURSIVE DecodeBytes(_, _)
\* decoder.decode(value, {stream: true}): held holds the bytes of an
\* incomplete character; an ill-formed byte becomes U+FFFD, written "?".
DecodeBytes(held, bytes) ==
    IF bytes = <<>> THEN [text |-> <<>>, held |-> held]
    ELSE LET b == Head(bytes)
             rest == Tail(bytes)
         IN  IF held = <<"C3">>
             THEN IF b = "A9"
                  THEN LET r == DecodeBytes(<<>>, rest)
                       IN  [r EXCEPT !.text = <<"é">> \o @]
                  ELSE LET r == DecodeBytes(<<>>, bytes)
                       IN  [r EXCEPT !.text = <<"?">> \o @]
             ELSE IF b = "C3" THEN DecodeBytes(<<"C3">>, rest)
             ELSE LET r == DecodeBytes(<<>>, rest)
                  IN  [r EXCEPT !.text = <<IF b = "A9" THEN "?" ELSE b>> \o @]

RECURSIVE SplitFrom(_, _, _, _)
\* The pieces of text from position i on, after the complete pieces done and
\* the piece begun in cur.
SplitFrom(text, i, done, cur) ==
    IF i > Len(text) THEN Append(done, cur)
    ELSE IF text[i] = Newline
         THEN SplitFrom(text, i + 1, Append(done, cur), <<>>)
         ELSE SplitFrom(text, i + 1, done, Append(cur, text[i]))

\* buffer.split('\n'): the pieces between the newlines, one more than there
\* are newlines.
Split(text) == SplitFrom(text, 1, <<>>, <<>>)

\* lines.pop() || '' with the buffer forgotten instead.
RemainderForgotten(lines) == <<>>

\* buffer = lines.pop() || ''
Remainder(lines) == Last(lines)

\* line.startsWith('data: ')
StartsWithMarker(line) ==
    Len(line) >= Len(Marker) /\ SubSeq(line, 1, Len(Marker)) = Marker

RECURSIVE TrimLeft(_)
TrimLeft(t) ==
    IF t # <<>> /\ Head(t) \in Whitespace THEN TrimLeft(Tail(t)) ELSE t

RECURSIVE TrimRight(_)
TrimRight(t) ==
    IF t # <<>> /\ Last(t) \in Whitespace THEN TrimRight(Front(t)) ELSE t

\* String.prototype.trim
Trim(t) == TrimRight(TrimLeft(t))

\* JSON.parse of the documents the backend writes: an object with the
\* discriminator and a content; anything else throws.
ParseJSON(t) ==
    IF /\ Len(t) = 4
       /\ t[1] = "{"
       /\ t[4] = "}"
       /\ t[2] \in Discriminators("voice") \cup Discriminators("refresh")
       /\ t[3] \in DigitChars \cup {"é"}
    THEN [ok |-> TRUE, disc |-> t[2], content |-> t[3]]
    ELSE [ok |-> FALSE]

Call(cb, arg) == [cb |-> cb, arg |-> arg]

\* The if/else chain of streamVoiceCall on data.type.
VoiceDispatch(data, h) ==
    IF data.disc = "t" /\ "onText" \in h THEN <<Call("onText", data.content)>>
    ELSE IF data.disc = "a" /\ "onAudio" \in h THEN <<Call("onAudio", data.content)>>
    ELSE IF data.disc = "s" /\ "onStatus" \in h THEN <<Call("onStatus", data.content)>>
    ELSE IF data.disc = "d" /\ "onDone" \in h THEN <<Call("onDone", data.content)>>
    ELSE IF data.disc = "e" /\ "onError" \in h THEN <<Call("onError", data.content)>>
    ELSE <<>>

\* The if/else chain of refreshAIMemory on data.step (the store writes of
\* the 'complete' branch are part 3).
RefreshDispatch(data, h) ==
    IF data.disc = "c"
    THEN IF "onComplete" \in h THEN <<Call("onComplete", data.content)>> ELSE <<>>
    ELSE IF data.disc = "e" /\ "onError" \in h THEN <<Call("onError", data.content)>>
    ELSE IF "onProgress" \in h THEN <<Call("onProgress", data.content)>>
    ELSE <<>>

\* The loop body with a parse failure passed on to the outer catch block's
\* onError instead of being caught per line.
LineCallsReportingFailure(line, m, h) ==
    IF ~StartsWithMarker(line) THEN <<>>
    ELSE LET data == ParseJSON(Trim(SubSeq(line, Len(Marker) + 1, Len(line))))
         IN  IF ~data.ok THEN <<Call("onError", "-")>>
             ELSE IF m = "voice" THEN VoiceDispatch(data, h)
             ELSE RefreshDispatch(data, h)

\* The body of "for (const line of lines)": the callbacks one line invokes.
LineCalls(line, m, h) ==
    IF ~StartsWithMarker(line) THEN <<>>
    ELSE LET data == ParseJSON(Trim(SubSeq(line, Len(Marker) + 1, Len(line))))
         IN  IF ~data.ok THEN <<>>
             ELSE IF m = "voice" THEN VoiceDispatch(data, h)
             ELSE RefreshDispatch(data, h)

RECURSIVE LinesCalls(_, _, _)
LinesCalls(lines, m, h) ==
    IF lines = <<>> THEN <<>>
    ELSE LineCalls(Head(lines), m, h) \o LinesCalls(Tail(lines), m, h)

\* One iteration of the while loop on the bytes one read returned.
ProcessRead(held, buf, bytes, m, h) ==
    LET dec == DecodeBytes(held, bytes)
        lines == Split(buf \o dec.text)
    IN  [held |-> dec.held,
         buffer |-> Remainder(lines),
         calls |-> LinesCalls(Front(lines), m, h)]

StreamIdle ==
    /\ mode = "voice"
    /\ handlers = {}
    /\ events = <<>>
    /\ terminated = TRUE
    /\ wire = <<>>
    /\ pos = 0
    /\ undecoded = <<>>
    /\ buffer = <<>>
    /\ dispatched = <<>>
    /\ carried = FALSE
    /\ streamPc = "idle"

\* The response has arrived: reader, decoder and buffer are fresh.
StreamInit ==
    /\ mode \in {"voice", "refresh"}
    /\ handlers \in HandlerSets(mode)
    /\ \E n \in 0..MaxLines : events \in [1..n -> LineKinds(mode)]
    /\ terminated \in BOOLEAN
    /\ wire = Encode(events, 1, terminated)
    /\ pos = 0
    /\ undecoded = <<>>
    /\ buffer = <<>>
    /\ dispatched = <<>>
    /\ carried = FALSE
    /\ streamPc = "reading"

\* reader.read() returns the next k bytes.
ReadChunk(k) ==
    /\ streamPc = "reading"
    /\ pos + k <= Len(wire)
    /\ LET r == ProcessRead(undecoded, buffer, SubSeq(wire, pos + 1, pos + k),
                            mode, handlers)
       IN  /\ undecoded' = r.held
           /\ buffer' = r.buffer
           /\ dispatched' = dispatched \o r.calls
           /\ carried' = (carried \/ r.held # <<>> \/ r.buffer # <<>>)
    /\ pos' = pos + k
    /\ UNCHANGED <<mode, handlers, events, terminated, wire, streamPc>>
    /\ UNCHANGED <<callVars, storeVars, settingsVars, replyVars, laterVars>>

\* The end of the body with the rest of the buffer handled as one more line.
ReadEndFlushing ==
    /\ streamPc = "reading"
    /\ pos = Len(wire)
    /\ streamPc' = "done"
    /\ dispatched' = dispatched \o LineCalls(buffer, mode, handlers)
    /\ UNCHANGED <<mode, handlers, events, terminated, wire, pos, undecoded,
                   buffer, carried>>
    /\ UNCHANGED <<callVars, storeVars, settingsVars, replyVars, laterVars>>

\* reader.read() returns done: break.
ReadEnd ==
    /\ streamPc = "reading"
    /\ pos = Len(wire)
    /\ streamPc' = "done"
    /\ UNCHANGED <<mode, handlers, events, terminated, wire, pos, undecoded,
                   buffer, dispatched, carried>>
    /\ UNCHANGED <<callVars, storeVars, settingsVars, replyVars, laterVars>>

StreamNext ==
    \/ \E k \in 1..MaxRead : ReadChunk(k)
    \/ ReadEnd

(***************************************************************************)
(* Part 3: the store (storage.js), sendMessage, the request of             *)
(* streamVoiceCall, the 'complete' branch of refreshAIMemory and the       *)
(* embeddings-cache flag (api.js).  Every await is a step.                 *)
(***************************************************************************)

SessionIds == {"s1", "s2"}
Ops == 1..MaxOps
\* A table holds under a key no row (what get() answers with undefined) or
\* one row.
NoRow == <<>>
Row(v) == <<v>>
Value(row) == row[1]
\* An embeddings object: the one a memory refresh produced (version n > 0),
\* or {} (what "preprocessed?.embeddings || {}" yields without one).
Object(n) == <<"object", n>>
EmptyObject == Object(0)
\* no embeddings key in the payload
Absent == <<"absent", 0>>
\* JSON.stringify(v), the form a multipart field carries
Stringify(v) == <<"json", v[2]>>

InFlight(send) == send.pc \notin {"idle", "done", "failed"}

\* The rows of a table that belong to session s.
RowsOf(table, s) == {row \in table : row.session_id = s}

\* needsFullData with the cache never consulted.
NeedsFullDataAlways(sid) == TRUE

\* needsFullData from one flag for all the sessions.
NeedsFullDataOneFlag(sid) == cachedSessions = {}

\* const needsFullData = !cachedSessions.has(sessionId)
NeedsFullData(sid) == sid \notin cachedSessions

\* The embeddings the request carries (sendMessage builds a multipart body
\* when a file is attached, streamVoiceCall and sendMessage a JSON one
\* otherwise).
RequestEmbeddings(form, pre, full) ==
    LET emb == IF pre = NoRow THEN EmptyObject ELSE Value(pre).embeddings
    IN  IF form = "multipart"
        THEN IF full THEN Stringify(emb) ELSE Stringify(EmptyObject)
        ELSE IF full THEN emb ELSE Absent

\* cachedSessions.add placed before the response is looked at.
CachedWhatever(cached, sid, outcome) == cached \cup {sid}

\* "if (!response.ok) throw ..." and then cachedSessions.add(sessionId); a
\* request that could not complete rejects the fetch.
CachedAfterResponse(cached, sid, outcome) ==
    IF outcome = "ok" THEN cached \cup {sid} ELSE cached

StoreIdle ==
    /\ sessions = [s \in SessionIds |-> NoRow]
    /\ messages = [s \in SessionIds |-> NoRow]
    /\ preprocessed = [s \in SessionIds |-> NoRow]
    /\ uploads = {}
    /\ images = {}
    /\ imagesKey = 0
    /\ cachedSessions = {}
    /\ ops = [i \in Ops |-> [pc |-> "idle"]]
    /\ del = [pc |-> "idle"]
    /\ deletes = 0

\* The page has loaded: the sessions were created and files uploaded by
\* earlier visits, s1 has been through a memory refresh and s2 has not, and
\* the set of cached sessions is empty.
StoreInit ==
    /\ sessions = [s \in SessionIds |-> Row([preview |-> <<"none", 0>>, subject |-> <<"none", 0>>])]
    /\ messages = [s \in SessionIds |-> Row(<<>>)]
    /\ preprocessed = [s \in SessionIds |->
                         IF s = "s1" THEN Row([embeddings |-> Object(1)])
                         ELSE NoRow]
    /\ uploads = {[id |-> 1, session_id |-> "s1", type |-> "text"],
                  [id |-> 2, session_id |-> "s2", type |-> "text"]}
    /\ images = {}
    /\ imagesKey = 0
    /\ cachedSessions = {}
    /\ ops = [i \in Ops |-> [pc |-> "idle"]]
    /\ del = [pc |-> "idle"]
    /\ deletes = 0

\* The operations in flight.
Running ==
    Cardinality({i \in Ops : InFlight(ops[i])})
    + (IF del.pc \in {"idle", "done"} THEN 0 ELSE 1)

\* Slot i is the next unused one and another operation may be in flight.
CanStart(i) ==
    /\ ops[i].pc = "idle"
    /\ \A j \in Ops : j < i => ops[j].pc # "idle"
    /\ Running < MaxInFlight

\* The local state of a call that begins.
NewOp(kind, sid, form, pc) ==
    [pc |-> pc, kind |-> kind, sid |-> sid, form |-> form,
     pre |-> NoRow, emb |-> Absent, full |-> FALSE, gotOk |-> FALSE,
     fail |-> "no", gen |-> FALSE, existing |-> 0, list |-> <<>>,
     session |-> NoRow, calls |-> <<>>, requests |-> 0,
     startCached |-> sid \in cachedSessions,
     after |-> {k \in Ops : /\ ops[k].pc = "done"
                            /\ ops[k].kind # "refresh"
                            /\ ops[k].sid = sid},
     okBefore |-> {},
     alone |-> \A k \in Ops :
                   InFlight(ops[k]) /\ ops[k].kind # "refresh"
                   => ops[k].sid # sid]

\* Another operation on sid begins: a deleteSession(sid) part-way through is
\* no longer the only operation on sid.
Disturb(sid) ==
    /\ del' = IF del.pc \notin {"idle", "done"} /\ del.sid = sid
              THEN [del EXCEPT !.quiet = FALSE] ELSE del

\* sendMessage(content, sid, file) or streamVoiceCall(content, sid, ..) is
\* called for a session the interface shows.
SendStart(i, kind, sid, withFile) ==
    /\ CanStart(i)
    /\ sessions[sid] # NoRow
    /\ kind = "voice" => ~withFile
    /\ ops' = [j \in Ops |->
                 IF j = i
                 THEN NewOp(kind, sid,
                            IF withFile THEN "multipart" ELSE "json",
                            "getPreprocessed")
                 ELSE IF /\ InFlight(ops[j]) /\ ops[j].kind # "refresh"
                         /\ ops[j].sid = sid
                      THEN [ops[j] EXCEPT !.alone = FALSE]
                      ELSE ops[j]]
    /\ Disturb(sid)
    /\ UNCHANGED <<sessions, messages, preprocessed, uploads, images,
                   imagesKey, cachedSessions, deletes>>
    /\ UNCHANGED <<callVars, streamVars, settingsVars, replyVars, laterVars>>

\* await Storage.getPreprocessed(sessionId)
SendGetPreprocessed(i) ==
    /\ ops[i].pc = "getPreprocessed"
    /\ ops' = [ops EXCEPT ![i].pre = preprocessed[ops[i].sid],
                              ![i].pc = "build"]
    /\ UNCHANGED <<sessions, messages, preprocessed, uploads, images,
                   imagesKey, cachedSessions, del, deletes>>
    /\ UNCHANGED <<callVars, streamVars, settingsVars, replyVars, laterVars>>

\* The request is built and the session marked as cached at once.
SendBuildMarking(i) ==
    /\ ops[i].pc = "build"
    /\ LET full == NeedsFullData(ops[i].sid)
       IN  ops' = [ops EXCEPT
                     ![i].full = full,
                     ![i].emb = RequestEmbeddings(ops[i].form, ops[i].pre,
                                                  full),
                     ![i].okBefore = {k \in Ops :
                                        /\ ops[k].pc # "idle"
                                        /\ ops[k].sid = ops[i].sid
                                        /\ ops[k].gotOk},
                     ![i].requests = @ + 1,
                     ![i].pc = "fetch"]
    /\ cachedSessions' = cachedSessions \cup {ops[i].sid}
    /\ UNCHANGED <<sessions, messages, preprocessed, uploads, images,
                   imagesKey, del, deletes>>
    /\ UNCHANGED <<callVars, streamVars, settingsVars, replyVars, laterVars>>

\* The remaining reads (session, history, key, settings) have resolved:
\* needsFullData is computed, the request is built and fetch is called.
SendBuild(i) ==
    /\ ops[i].pc = "build"
    /\ LET full == NeedsFullData(ops[i].sid)
       IN  ops' = [ops EXCEPT
                       ![i].full = full,
                       ![i].emb = RequestEmbeddings(ops[i].form,
                                                    ops[i].pre, full),
                       ![i].okBefore = {k \in Ops :
                                          /\ ops[k].pc # "idle"
                                          /\ ops[k].sid = ops[i].sid
                                          /\ ops[k].gotOk},
                       ![i].requests = @ + 1,
                       ![i].pc = "fetch"]
    /\ UNCHANGED <<sessions, messages, preprocessed, uploads, images,
                   imagesKey, cachedSessions, del, deletes>>
    /\ UNCHANGED <<callVars, streamVars, settingsVars, replyVars, laterVars>>

\* After response.json(): the first of the steps the result asks for.
AfterJson(send, gen) ==
    IF send.form = "multipart" THEN "userImage.get"
    ELSE IF gen THEN "genImage.get" ELSE "addUser.get"

\* A failed request is issued once more before the operation gives up.
SendResponseRetrying(i, outcome) ==
    /\ ops[i].pc = "fetch"
    /\ cachedSessions' = CachedAfterResponse(cachedSessions, ops[i].sid,
                                             outcome)
    /\ ops' = [ops EXCEPT
                   ![i].gotOk = (outcome = "ok"),
                   ![i].fail = IF outcome = "ok" THEN "no" ELSE outcome,
                   ![i].requests = IF outcome # "ok" /\ @ < 2
                                   THEN @ + 1 ELSE @,
                   ![i].pc = IF outcome # "ok"
                             THEN IF ops[i].requests < 2 THEN "fetch"
                                  ELSE "failed"
                             ELSE IF ops[i].kind = "chat" THEN "json"
                             ELSE "stream"]
    /\ UNCHANGED <<sessions, messages, preprocessed, uploads, images,
                   imagesKey, del, deletes>>
    /\ UNCHANGED <<callVars, streamVars, settingsVars, replyVars, laterVars>>

\* The fetch settles: it rejects ("network"), resolves with a status outside
\* 2xx ("status") or resolves with response.ok ("ok").
SendResponse(i, outcome) ==
    /\ ops[i].pc = "fetch"
    /\ cachedSessions' = CachedAfterResponse(cachedSessions, ops[i].sid,
                                             outcome)
    /\ ops' = [ops EXCEPT
                   ![i].gotOk = (outcome = "ok"),
                   ![i].fail = IF outcome = "ok" THEN "no" ELSE outcome,
                   ![i].pc = IF outcome # "ok" THEN "failed"
                             ELSE IF ops[i].kind = "chat" THEN "json"
                             ELSE "stream"]
    /\ UNCHANGED <<sessions, messages, preprocessed, uploads, images,
                   imagesKey, del, deletes>>
    /\ UNCHANGED <<callVars, streamVars, settingsVars, replyVars, laterVars>>

\* const result = await response.json(): the body parses, with or without
\* generated images, or the promise rejects.
SendJson(i, parsed, gen) ==
    /\ ops[i].pc = "json"
    /\ ~parsed => ~gen
    /\ ops' = [ops EXCEPT
                   ![i].gen = gen,
                   ![i].fail = IF parsed THEN "no" ELSE "parse",
                   ![i].pc = IF parsed THEN AfterJson(ops[i], gen)
                             ELSE "failed"]
    /\ UNCHANGED <<sessions, messages, preprocessed, uploads, images,
                   imagesKey, cachedSessions, del, deletes>>
    /\ UNCHANGED <<callVars, streamVars, settingsVars, replyVars, laterVars>>

\* The read loop of streamVoiceCall ends, by done or by a rejected read.
SendVoiceStream(i, ok) ==
    /\ ops[i].pc = "stream"
    /\ ops[i].kind = "voice"
    /\ ops' = [ops EXCEPT ![i].fail = IF ok THEN "no" ELSE "stream",
                              ![i].pc = IF ok THEN "done" ELSE "failed"]
    /\ UNCHANGED <<sessions, messages, preprocessed, uploads, images,
                   imagesKey, cachedSessions, del, deletes>>
    /\ UNCHANGED <<callVars, streamVars, settingsVars, replyVars, laterVars>>

ImageOf(send, i) ==
    IF send.pc \in {"userImage.get", "userImage.put"}
    THEN [image_id |-> <<"user", i>>, source |-> "user"]
    ELSE [image_id |-> <<"ai", i>>, source |-> "ai"]

\* saveImage: const existing = await getImage(sessionId, imageId)
SaveImageGet(i) ==
    /\ ops[i].pc \in {"userImage.get", "genImage.get"}
    /\ LET found == {row \in RowsOf(images, ops[i].sid) :
                        row.image_id = ImageOf(ops[i], i).image_id}
       IN  ops' = [ops EXCEPT
                       ![i].existing = IF found = {} THEN 0
                                       ELSE (CHOOSE row \in found : TRUE).id,
                       ![i].pc = IF ops[i].pc = "userImage.get"
                                 THEN "userImage.put" ELSE "genImage.put"]
    /\ UNCHANGED <<sessions, messages, preprocessed, uploads, images,
                   imagesKey, cachedSessions, del, deletes>>
    /\ UNCHANGED <<callVars, streamVars, settingsVars, replyVars, laterVars>>

\* saveImage: db.images.put under the existing id, or db.images.add
SaveImagePut(i) ==
    /\ ops[i].pc \in {"userImage.put", "genImage.put"}
    /\ LET img == ImageOf(ops[i], i)
           id == IF ops[i].existing # 0 THEN ops[i].existing
                 ELSE imagesKey + 1
       IN  /\ images' = {row \in images : row.id # id} \cup
                        {[id |-> id, session_id |-> ops[i].sid,
                          image_id |-> img.image_id, source |-> img.source]}
           /\ imagesKey' = IF id > imagesKey THEN id ELSE imagesKey
    /\ ops' = [ops EXCEPT
                   ![i].pc = IF ops[i].pc = "userImage.put" /\ ops[i].gen
                             THEN "genImage.get" ELSE "addUser.get"]
    /\ UNCHANGED <<sessions, messages, preprocessed, uploads, cachedSessions,
                   del, deletes>>
    /\ UNCHANGED <<callVars, streamVars, settingsVars, replyVars, laterVars>>

\* addMessage: const messages = await getMessages(sessionId)
AddMessageGet(i) ==
    /\ ops[i].pc \in {"addUser.get", "addAi.get"}
    /\ ops' = [ops EXCEPT
                   ![i].list = IF messages[ops[i].sid] = NoRow THEN <<>>
                               ELSE Value(messages[ops[i].sid]),
                   ![i].pc = IF ops[i].pc = "addUser.get"
                             THEN "addUser.put" ELSE "addAi.put"]
    /\ UNCHANGED <<sessions, messages, preprocessed, uploads, images,
                   imagesKey, cachedSessions, del, deletes>>
    /\ UNCHANGED <<callVars, streamVars, settingsVars, replyVars, laterVars>>

\* addMessage: messages.push(message); await saveMessages(..)
AddMessagePut(i) ==
    /\ ops[i].pc \in {"addUser.put", "addAi.put"}
    /\ LET role == IF ops[i].pc = "addUser.put" THEN "user" ELSE "ai"
       IN  messages' = [messages EXCEPT
                          ![ops[i].sid] =
                              Row(Append(ops[i].list, <<role, i>>))]
    /\ ops' = [ops EXCEPT
                   ![i].pc = IF ops[i].pc = "addUser.put"
                             THEN "addAi.get" ELSE "update.get"]
    /\ UNCHANGED <<sessions, preprocessed, uploads, images, imagesKey,
                   cachedSessions, del, deletes>>
    /\ UNCHANGED <<callVars, streamVars, settingsVars, replyVars, laterVars>>

\* updateSession: const session = await db.sessions.get(sessionId);
\* if (!session) return null (refreshAIMemory then calls onComplete(data))
UpdateSessionGet(i) ==
    /\ ops[i].pc = "update.get"
    /\ ops' = [ops EXCEPT
                   ![i].session = sessions[ops[i].sid],
                   ![i].pc = IF sessions[ops[i].sid] = NoRow
                             THEN "done" ELSE "update.put",
                   ![i].calls = IF /\ sessions[ops[i].sid] = NoRow
                                   /\ ops[i].kind = "refresh"
                                THEN Append(@, "onComplete") ELSE @]
    /\ UNCHANGED <<sessions, messages, preprocessed, uploads, images,
                   imagesKey, cachedSessions, del, deletes>>
    /\ UNCHANGED <<callVars, streamVars, settingsVars, replyVars, laterVars>>

\* updateSession: await db.sessions.put({...session, ...updates}), the
\* preview for sendMessage and the subject for refreshAIMemory; sendMessage
\* returns, refreshAIMemory calls onComplete(data).
UpdateSessionPut(i) ==
    /\ ops[i].pc = "update.put"
    /\ sessions' = [sessions EXCEPT
                      ![ops[i].sid] =
                          IF ops[i].kind = "refresh"
                          THEN Row([Value(ops[i].session) EXCEPT
                                      !.subject = <<"subject", i>>])
                          ELSE Row([Value(ops[i].session) EXCEPT
                                      !.preview = <<"ai", i>>])]
    /\ ops' = [ops EXCEPT
                 ![i].pc = "done",
                 ![i].calls = IF ops[i].kind = "refresh"
                              THEN Append(@, "onComplete") ELSE @]
    /\ UNCHANGED <<messages, preprocessed, uploads, images, imagesKey,
                   cachedSessions, del, deletes>>
    /\ UNCHANGED <<callVars, streamVars, settingsVars, replyVars, laterVars>>

\* A cascade step that removes nothing.
DeleteWhereNothing(table, sid) == table

\* db.<table>.where('session_id').equals(sessionId).delete()
DeleteWhere(table, sid) == {row \in table : row.session_id # sid}

\* The user confirms the deletion of a listed session: deleteSession(sid)
\* is called.
DeleteStart(sid) ==
    /\ del.pc \in {"idle", "done"}
    /\ deletes < MaxDeletes
    /\ Running < MaxInFlight
    /\ sessions[sid] # NoRow
    /\ deletes' = deletes + 1
    /\ del' = [pc |-> "sessions", sid |-> sid,
               sids |-> (IF del.pc = "idle" THEN {} ELSE del.sids) \cup {sid},
               quiet |-> \A i \in Ops :
                             InFlight(ops[i]) => ops[i].sid # sid]
    /\ UNCHANGED <<sessions, messages, preprocessed, uploads, images,
                   imagesKey, cachedSessions, ops>>
    /\ UNCHANGED <<callVars, streamVars, settingsVars, replyVars, laterVars>>

\* await db.sessions.delete(sessionId)
DeleteSessionsRow ==
    /\ del.pc = "sessions"
    /\ sessions' = [sessions EXCEPT ![del.sid] = NoRow]
    /\ del' = [del EXCEPT !.pc = "messages"]
    /\ UNCHANGED <<messages, preprocessed, uploads, images, imagesKey,
                   cachedSessions, ops, deletes>>
    /\ UNCHANGED <<callVars, streamVars, settingsVars, replyVars, laterVars>>

\* await db.messages.delete(sessionId)
DeleteMessagesRow ==
    /\ del.pc = "messages"
    /\ messages' = [messages EXCEPT ![del.sid] = NoRow]
    /\ del' = [del EXCEPT !.pc = "preprocessed"]
    /\ UNCHANGED <<sessions, preprocessed, uploads, images, imagesKey,
                   cachedSessions, ops, deletes>>
    /\ UNCHANGED <<callVars, streamVars, settingsVars, replyVars, laterVars>>

\* await db.preprocessed.delete(sessionId)
DeletePreprocessedRow ==
    /\ del.pc = "preprocessed"
    /\ preprocessed' = [preprocessed EXCEPT ![del.sid] = NoRow]
    /\ del' = [del EXCEPT !.pc = "uploads"]
    /\ UNCHANGED <<sessions, messages, uploads, images, imagesKey,
                   cachedSessions, ops, deletes>>
    /\ UNCHANGED <<callVars, streamVars, settingsVars, replyVars, laterVars>>

\* await db.uploads.where('session_id').equals(sessionId).delete()
DeleteUploadsRows ==
    /\ del.pc = "uploads"
    /\ uploads' = DeleteWhere(uploads, del.sid)
    /\ del' = [del EXCEPT !.pc = "images"]
    /\ UNCHANGED <<sessions, messages, preprocessed, images, imagesKey,
                   cachedSessions, ops, deletes>>
    /\ UNCHANGED <<callVars, streamVars, settingsVars, replyVars, laterVars>>

\* await db.images.where('session_id').equals(sessionId).delete();
\* deleteSession returns.
DeleteImagesRows ==
    /\ del.pc = "images"
    /\ images' = DeleteWhere(images, del.sid)
    /\ del' = [del EXCEPT !.pc = "done"]
    /\ UNCHANGED <<sessions, messages, preprocessed, uploads, imagesKey,
                   cachedSessions, ops, deletes>>
    /\ UNCHANGED <<callVars, streamVars, settingsVars, replyVars, laterVars>>

\* The catch block of refreshAIMemory: if (onError) onError(error.message),
\* the caller having supplied onError; the promise resolves.
RefreshCaught(op, what) ==
    [op EXCEPT !.pc = "done", !.fail = what, !.calls = Append(@, "onError")]

\* The catch inside the loop body, around JSON.parse and the branches on
\* data.step: console.warn, and the loop goes on to the end of the stream.
RefreshWarned(op, what) == [op EXCEPT !.pc = "done", !.fail = what]

\* refreshAIMemory({sessionId, ..}) is called for a session the interface
\* shows; its store reads resolve and the request is sent, or a read rejects.
RefreshStart(i, sid, readOk) ==
    /\ CanStart(i)
    /\ sessions[sid] # NoRow
    /\ LET op == NewOp("refresh", sid, "json", "stream")
       IN  ops' = [ops EXCEPT
                     ![i] = IF readOk THEN op ELSE RefreshCaught(op, "read")]
    /\ Disturb(sid)
    /\ UNCHANGED <<sessions, messages, preprocessed, uploads, images,
                   imagesKey, cachedSessions, deletes>>
    /\ UNCHANGED <<callVars, streamVars, settingsVars, replyVars, laterVars>>

\* The 'complete' branch calling onComplete(data) before it persists.
RefreshEventCompleting(i, what) ==
    /\ ops[i].pc = "stream"
    /\ ops[i].kind = "refresh"
    /\ ops' = [ops EXCEPT
                 ![i] = CASE what = "complete" ->
                               [ops[i] EXCEPT !.pc = "savePreprocessed",
                                              !.calls = Append(@, "onComplete")]
                          [] what = "end" -> [ops[i] EXCEPT !.pc = "done"]
                          [] OTHER -> RefreshCaught(ops[i], what)]
    /\ UNCHANGED <<sessions, messages, preprocessed, uploads, images,
                   imagesKey, cachedSessions, del, deletes>>
    /\ UNCHANGED <<callVars, streamVars, settingsVars, replyVars, laterVars>>

\* What the request and the stream bring next: the event with step
\* 'complete'; the end of the stream without it ("end"); a rejected fetch or
\* a status outside 2xx ("fetch"); a rejected reader.read() ("body").
RefreshEvent(i, what) ==
    /\ ops[i].pc = "stream"
    /\ ops[i].kind = "refresh"
    /\ ops' = [ops EXCEPT
                 ![i] = CASE what = "complete" ->
                               [ops[i] EXCEPT !.pc = "savePreprocessed"]
                          [] what = "end" -> [ops[i] EXCEPT !.pc = "done"]
                          [] OTHER -> RefreshCaught(ops[i], what)]
    /\ UNCHANGED <<sessions, messages, preprocessed, uploads, images,
                   imagesKey, cachedSessions, del, deletes>>
    /\ UNCHANGED <<callVars, streamVars, settingsVars, replyVars, laterVars>>

\* savePreprocessed that also takes the session out of cachedSessions.
RefreshSavePreprocessedInvalidating(i, ok) ==
    /\ ops[i].pc = "savePreprocessed"
    /\ preprocessed' = IF ok
                       THEN [preprocessed EXCEPT
                               ![ops[i].sid] =
                                   Row([embeddings |-> Object(i + 1)])]
                       ELSE preprocessed
    /\ cachedSessions' = IF ok THEN cachedSessions \ {ops[i].sid}
                         ELSE cachedSessions
    /\ ops' = [ops EXCEPT
                 ![i] = IF ok THEN [ops[i] EXCEPT !.pc = "update.get"]
                        ELSE RefreshWarned(ops[i], "persist")]
    /\ UNCHANGED <<sessions, messages, uploads, images, imagesKey,
                   del, deletes>>
    /\ UNCHANGED <<callVars, streamVars, settingsVars, replyVars, laterVars>>

\* await Storage.savePreprocessed(sessionId, data.preprocessed): the put
\* lands, or it rejects inside the try of the loop body.
RefreshSavePreprocessed(i, ok) ==
    /\ ops[i].pc = "savePreprocessed"
    /\ preprocessed' = IF ok
                       THEN [preprocessed EXCEPT
                               ![ops[i].sid] =
                                   Row([embeddings |-> Object(i + 1)])]
                       ELSE preprocessed
    /\ ops' = [ops EXCEPT
                 ![i] = IF ok THEN [ops[i] EXCEPT !.pc = "update.get"]
                        ELSE RefreshWarned(ops[i], "persist")]
    /\ UNCHANGED <<sessions, messages, uploads, images, imagesKey,
                   cachedSessions, del, deletes>>
    /\ UNCHANGED <<callVars, streamVars, settingsVars, replyVars, laterVars>>

\* await Storage.updateSession(sessionId, updates) rejects while the
\* 'complete' event is handled.
RefreshUpdateFails(i) ==
    /\ ops[i].pc \in {"update.get", "update.put"}
    /\ ops[i].kind = "refresh"
    /\ ops' = [ops EXCEPT ![i] = RefreshWarned(ops[i], "persist")]
    /\ UNCHANGED <<sessions, messages, preprocessed, uploads, images,
                   imagesKey, cachedSessions, del, deletes>>
    /\ UNCHANGED <<callVars, streamVars, settingsVars, replyVars, laterVars>>

StoreNext ==
    \/ \E i \in Ops, kind \in {"chat", "voice"}, sid \in SessionIds,
          withFile \in BOOLEAN : SendStart(i, kind, sid, withFile)
    \/ \E i \in Ops : SendGetPreprocessed(i)
    \/ \E i \in Ops : SendBuild(i)
    \/ \E i \in Ops, outcome \in {"network", "status", "ok"} :
          SendResponse(i, outcome)
    \/ \E i \in Ops, parsed, gen \in BOOLEAN : SendJson(i, parsed, gen)
    \/ \E i \in Ops, ok \in BOOLEAN : SendVoiceStream(i, ok)
    \/ \E i \in Ops : SaveImageGet(i)
    \/ \E i \in Ops : SaveImagePut(i)
    \/ \E i \in Ops : AddMessageGet(i)
    \/ \E i \in Ops : AddMessagePut(i)
    \/ \E i \in Ops : UpdateSessionGet(i)
    \/ \E i \in Ops : UpdateSessionPut(i)
    \/ \E sid \in SessionIds : DeleteStart(sid)
    \/ DeleteSessionsRow
    \/ DeleteMessagesRow
    \/ DeletePreprocessedRow
    \/ DeleteUploadsRows
    \/ DeleteImagesRows
    \/ \E i \in Ops, sid \in SessionIds, readOk \in BOOLEAN :
          RefreshStart(i, sid, readOk)
    \/ \E i \in Ops, what \in {"complete", "end", "fetch", "body"} :
          RefreshEvent(i, what)
    \/ \E i \in Ops, ok \in BOOLEAN : RefreshSavePreprocessed(i, ok)
    \/ \E i \in Ops : RefreshUpdateFails(i)

(***************************************************************************)
(* Part 4: getSettings and saveSettings (storage.js).  One call of         *)
(* saveSettings runs at a time.                                            *)
(***************************************************************************)
DEFAULT_SETTINGS ==
    [chatbot_model |-> "gemini-flash-latest",
     training_model |-> "gemini-3-flash-preview",
     embedding_model |-> "gemini-embedding-001",
     image_model |-> "gemini-2.5-flash-image"]

SettingKeys == DOMAIN DEFAULT_SETTINGS

\* The values a caller may give a key: its default or another model.
SettingValues(k) == {DEFAULT_SETTINGS[k], "custom"}

\* The objects saveSettings is called with: some of the keys, with values.
Partials ==
    UNION {{p \in [keys -> {"gemini-flash-latest", "gemini-3-flash-preview",
                            "gemini-embedding-001", "gemini-2.5-flash-image",
                            "custom"}] :
               \A k \in keys : p[k] \in SettingValues(k)} :
           keys \in SUBSET SettingKeys}

\* getSettings: row ? row.data : { ...DEFAULT_SETTINGS }
GetSettings(row) == IF row = NoRow THEN DEFAULT_SETTINGS ELSE Value(row)

\* The new object taking the place of the current one.
SpreadReplacing(current, new) == new

\* { ...current, ...new }
Spread(current, new) ==
    [k \in DOMAIN current \cup DOMAIN new |->
        IF k \in DOMAIN new THEN new[k] ELSE current[k]]

\* A database in which settings were never saved.
SettingsInit ==
    /\ settings = NoRow
    /\ save = [pc |-> "idle"]
    /\ saves = 0

\* saveSettings(newSettings) is called.
SaveSettingsStart(partial) ==
    /\ save.pc \in {"idle", "done"}
    /\ saves < MaxSaves
    /\ saves' = saves + 1
    /\ save' = [pc |-> "get", partial |-> partial,
                before |-> GetSettings(settings),
                current |-> DEFAULT_SETTINGS, merged |-> DEFAULT_SETTINGS]
    /\ UNCHANGED settings
    /\ UNCHANGED <<callVars, streamVars, storeVars, replyVars, laterVars>>

\* const current = await getSettings();
\* const merged = { ...current, ...newSettings }
SaveSettingsGet ==
    /\ save.pc = "get"
    /\ LET current == GetSettings(settings)
       IN  save' = [save EXCEPT !.current = current,
                                !.merged = Spread(current, save.partial),
                                !.pc = "put"]
    /\ UNCHANGED <<settings, saves>>
    /\ UNCHANGED <<callVars, streamVars, storeVars, replyVars, laterVars>>

\* await db.settings.put({ id: 1, data: merged }); return merged
SaveSettingsPut ==
    /\ save.pc = "put"
    /\ settings' = Row(save.merged)
    /\ save' = [save EXCEPT !.pc = "done"]
    /\ UNCHANGED saves
    /\ UNCHANGED <<callVars, streamVars, storeVars, replyVars, laterVars>>

SettingsNext ==
    \/ \E partial \in Partials : SaveSettingsStart(partial)
    \/ SaveSettingsGet
    \/ SaveSettingsPut

(***************************************************************************)
(* Part 5: sendMessage from its response on (api.js 255-325), for one call *)
(* with no other writer on the session.  A string is the sequence of its   *)
(* character codes; an image id and a blob URL are pairs.                  *)
(***************************************************************************)
\* A string of n characters, all positions distinguishable.
Text(n) == [k \in 1..n |-> 97 + (k % 26)]

ContentLengths == {0, 3, PreviewLimit, PreviewLimit + 1}

\* "No preview", "No messages yet." and "..."
NoPreview == <<78, 111, 32, 112, 114, 101, 118, 105, 101, 119>>
NoMessagesYet == <<78, 111, 32, 109, 101, 115, 115, 97, 103, 101, 115, 32,
                   121, 101, 116, 46>>
Ellipsis == <<46, 46, 46>>

\* An image id the backend assigned, and the URL createObjectURL returns
\* for the record stored under it.
ImageId(n) == <<"id", n>>
BlobUrl(id) == <<"blob", id[2]>>

\* An absent property is <<>>, a present one <<value>>.
None == <<>>
Some(v) == <<v>>

UserMessages ==
    {[role |-> "user", content |-> Text(3), images |-> im] :
        im \in {<<>>, <<ImageId(1)>>}}

AiMessages ==
    {[role |-> "assistant", content |-> Text(n), images |-> im] :
        n \in ContentLengths, im \in {<<>>, <<ImageId(2)>>}}

ListsOf(S, n) == UNION {[1..k -> S] : k \in 0..n}

\* The bodies /chat may answer with.
Results ==
    [user_message : {None} \cup {Some(m) : m \in UserMessages},
     ai_message : {None} \cup {Some(m) : m \in AiMessages},
     ai_messages : {None} \cup {Some(l) : l \in ListsOf(AiMessages, MaxReplies)},
     generated_images : {<<>>, <<ImageId(2)>>}]

NoResult ==
    [user_message |-> None, ai_message |-> None, ai_messages |-> None,
     generated_images |-> <<>>]

NoOriginals == [user |-> <<>>, list |-> <<>>, single |-> <<>>]

\* previewText.slice(0, 50) + (previewText.length > 50 ? '...' : '')
Slice(text) ==
    SubSeq(text, 1, IF Len(text) < PreviewLimit THEN Len(text)
                    ELSE PreviewLimit)

Preview(text) ==
    Slice(text) \o (IF Len(text) > PreviewLimit THEN Ellipsis ELSE <<>>)

\* result.ai_message?.content || 'No preview'
PreviewText(r) ==
    IF r.ai_message = None THEN NoPreview
    ELSE IF r.ai_message[1].content = <<>> THEN NoPreview
    ELSE r.ai_message[1].content

\* The states of a session before the call: just created, or after one
\* exchange.
EarlierExchange ==
    <<[role |-> "user", content |-> Text(3), images |-> <<>>],
      [role |-> "assistant", content |-> Text(3), images |-> <<>>]>>

ReplyIdle ==
    /\ file = FALSE
    /\ response = NoResult
    /\ result = NoResult
    /\ originals = NoOriginals
    /\ stored = <<>>
    /\ listBefore = <<>>
    /\ gallery = {}
    /\ sessionPreview = NoMessagesYet
    /\ aiIndex = 0
    /\ replyPc = "idle"

\* sendMessage has received a response with response.ok.
ReplyInit ==
    /\ file \in BOOLEAN
    /\ response = NoResult
    /\ result = NoResult
    /\ originals = NoOriginals
    /\ stored \in {<<>>, EarlierExchange}
    /\ listBefore = stored
    /\ gallery = {}
    /\ sessionPreview = IF stored = <<>> THEN NoMessagesYet
                        ELSE Preview(Text(3))
    /\ aiIndex = 0
    /\ replyPc = "json"

\* const result = await response.json() and the three copies of the image
\* lists.
ReplyJson ==
    /\ replyPc = "json"
    /\ \E r \in Results :
        /\ response' = r
        /\ result' = r
        /\ originals' =
             [user |-> IF r.user_message = None THEN <<>>
                       ELSE r.user_message[1].images,
              list |-> IF r.ai_messages = None THEN <<>>
                       ELSE [k \in 1..Len(r.ai_messages[1]) |->
                               r.ai_messages[1][k].images],
              single |-> IF r.ai_message = None THEN <<>>
                         ELSE r.ai_message[1].images]
    /\ replyPc' = "saveImages"
    /\ UNCHANGED <<file, stored, listBefore, gallery, sessionPreview, aiIndex>>
    /\ UNCHANGED <<callVars, streamVars, storeVars, settingsVars, laterVars>>

\* The ids of a list, as a set.
Range(seq) == {seq[k] : k \in 1..Len(seq)}

\* Storage.saveImage for the file under the first id of the user message,
\* and for each generated image under its id.
ReplySaveImages ==
    /\ replyPc = "saveImages"
    /\ gallery' = gallery
           \cup (IF /\ file
                    /\ result.user_message # None
                    /\ Len(result.user_message[1].images) > 0
                 THEN {result.user_message[1].images[1]} ELSE {})
           \cup Range(result.generated_images)
    /\ replyPc' = "convert"
    /\ UNCHANGED <<file, response, result, originals, stored, listBefore,
                   sessionPreview, aiIndex>>
    /\ UNCHANGED <<callVars, streamVars, storeVars, settingsVars, laterVars>>

\* The blob URLs of the ids that have a record, in order.
RECURSIVE BlobUrls(_, _)
BlobUrls(ids, saved) ==
    IF ids = <<>> THEN <<>>
    ELSE (IF Head(ids) \in saved THEN <<BlobUrl(Head(ids))>> ELSE <<>>)
         \o BlobUrls(Tail(ids), saved)

\* convertImageIds
ConvertImageIds(message, saved) ==
    IF Len(message.images) = 0 THEN message
    ELSE [message EXCEPT !.images = BlobUrls(@, saved)]

\* The three conversions of result for display.
ReplyConvert ==
    /\ replyPc = "convert"
    /\ result' =
         [result EXCEPT
            !.user_message =
                IF @ = None THEN None
                ELSE Some(ConvertImageIds(@[1], gallery)),
            !.ai_messages =
                IF @ = None THEN None
                ELSE Some([k \in 1..Len(@[1]) |->
                             ConvertImageIds(@[1][k], gallery)]),
            !.ai_message =
                IF @ = None THEN None
                ELSE Some(ConvertImageIds(@[1], gallery))]
    /\ replyPc' = "addUser"
    /\ UNCHANGED <<file, response, originals, stored, listBefore, gallery,
                   sessionPreview, aiIndex>>
    /\ UNCHANGED <<callVars, streamVars, storeVars, settingsVars, laterVars>>

\* The message stored as it is shown.
StorageMsgAsShown(message, ids) == message

\* const storageMsg = { ...message, images: original ids }
StorageMsg(message, ids) == [message EXCEPT !.images = ids]

\* What follows the user message: the loop over result.ai_messages, else
\* the single result.ai_message, else the preview.
AfterUser(r) ==
    IF r.ai_messages # None
    THEN IF Len(r.ai_messages[1]) > 0 THEN "addAiList" ELSE "preview"
    ELSE IF r.ai_message # None THEN "addAi" ELSE "preview"

\* if (result.user_message) await Storage.addMessage(sessionId, storageMsg)
ReplyAddUser ==
    /\ replyPc = "addUser"
    /\ stored' = IF result.user_message = None THEN stored
                 ELSE Append(stored, StorageMsg(result.user_message[1],
                                                originals.user))
    /\ aiIndex' = 1
    /\ replyPc' = AfterUser(result)
    /\ UNCHANGED <<file, response, result, originals, listBefore, gallery,
                   sessionPreview>>
    /\ UNCHANGED <<callVars, streamVars, storeVars, settingsVars, laterVars>>

\* One turn of the loop over result.ai_messages.
ReplyAddAiList ==
    /\ replyPc = "addAiList"
    /\ stored' = Append(stored, StorageMsg(result.ai_messages[1][aiIndex],
                                           originals.list[aiIndex]))
    /\ aiIndex' = aiIndex + 1
    /\ replyPc' = IF aiIndex < Len(result.ai_messages[1]) THEN "addAiList"
                  ELSE "preview"
    /\ UNCHANGED <<file, response, result, originals, listBefore, gallery,
                   sessionPreview>>
    /\ UNCHANGED <<callVars, streamVars, storeVars, settingsVars, laterVars>>

\* else if (result.ai_message) await Storage.addMessage(..)
ReplyAddAi ==
    /\ replyPc = "addAi"
    /\ stored' = Append(stored, StorageMsg(result.ai_message[1],
                                           originals.single))
    /\ replyPc' = "preview"
    /\ UNCHANGED <<file, response, result, originals, listBefore, gallery,
                   sessionPreview, aiIndex>>
    /\ UNCHANGED <<callVars, streamVars, storeVars, settingsVars, laterVars>>

\* await Storage.updateSession(sessionId, { preview: .. }); return result
ReplyUpdatePreview ==
    /\ replyPc = "preview"
    /\ sessionPreview' = Preview(PreviewText(result))
    /\ replyPc' = "done"
    /\ UNCHANGED <<file, response, result, originals, stored, listBefore,
                   gallery, aiIndex>>
    /\ UNCHANGED <<callVars, streamVars, storeVars, settingsVars, laterVars>>

ReplyNext ==
    \/ ReplyJson
    \/ ReplySaveImages
    \/ ReplyConvert
    \/ ReplyAddUser
    \/ ReplyAddAiList
    \/ ReplyAddAi
    \/ ReplyUpdatePreview

(***************************************************************************)
(* Part 6: getImage and saveImage (storage.js 230-279).  Each await of     *)
(* saveImage is a step; the data of a call is the number of the call.      *)
(***************************************************************************)
ImageCallIds == 1..MaxImageCalls
ImageNames == {"img1", "img2"}

\* getImage: the rows of the pair in the order of the index, that is by
\* primary key; images[0] || null, null being <<>>.
GetImage(rows, sid, imageId) ==
    LET found == {row \in rows : row.session_id = sid /\ row.image_id = imageId}
    IN  IF found = {} THEN <<>>
        ELSE <<CHOOSE row \in found : \A other \in found : row.id <= other.id>>

ImagesIdle ==
    /\ imageRows = {}
    /\ imageKey = 0
    /\ imageCalls = [k \in ImageCallIds |-> [pc |-> "idle"]]
    /\ lastSaved = [p \in SessionIds \X ImageNames |-> 0]

\* saveImage(sessionId, imageId, imageData, metadata) up to its first await
\* on the store: the data is converted and the image record built.
SaveImageStart(k, sid, imageId) ==
    /\ imageCalls[k].pc = "idle"
    /\ \A j \in ImageCallIds : j < k => imageCalls[j].pc # "idle"
    /\ imageCalls' = [imageCalls EXCEPT
                        ![k] = [pc |-> "get", session_id |-> sid,
                                image_id |-> imageId, data |-> k,
                                existing |-> <<>>]]
    /\ UNCHANGED <<imageRows, imageKey, lastSaved>>
    /\ UNCHANGED <<callVars, streamVars, storeVars, settingsVars, replyVars>>
    /\ UNCHANGED besidesImages

\* const existing = await getImage(sessionId, imageId)
SaveImageExisting(k) ==
    /\ imageCalls[k].pc = "get"
    /\ imageCalls' = [imageCalls EXCEPT
                        ![k].existing = GetImage(imageRows,
                                                 imageCalls[k].session_id,
                                                 imageCalls[k].image_id),
                        ![k].pc = "write"]
    /\ UNCHANGED <<imageRows, imageKey, lastSaved>>
    /\ UNCHANGED <<callVars, streamVars, storeVars, settingsVars, replyVars>>
    /\ UNCHANGED besidesImages

\* if (existing) { image.id = existing.id; await db.images.put(image) }
\* else await db.images.add(image); return image
SaveImageWrite(k) ==
    /\ imageCalls[k].pc = "write"
    /\ LET c == imageCalls[k]
           id == IF c.existing # <<>> THEN c.existing[1].id ELSE imageKey + 1
       IN  /\ imageRows' = {row \in imageRows : row.id # id} \cup
                           {[id |-> id, session_id |-> c.session_id,
                             image_id |-> c.image_id, data |-> c.data]}
           /\ imageKey' = IF id > imageKey THEN id ELSE imageKey
           /\ lastSaved' = [lastSaved EXCEPT
                              ![<<c.session_id, c.image_id>>] = c.data]
    /\ imageCalls' = [imageCalls EXCEPT ![k].pc = "done"]
    /\ UNCHANGED <<callVars, streamVars, storeVars, settingsVars, replyVars>>
    /\ UNCHANGED besidesImages

ImagesNext ==
    \/ \E k \in ImageCallIds, sid \in SessionIds, imageId \in ImageNames :
          SaveImageStart(k, sid, imageId)
    \/ \E k \in ImageCallIds : SaveImageExisting(k)
    \/ \E k \in ImageCallIds : SaveImageWrite(k)

(***************************************************************************)
(* Part 7: updateSession (storage.js 86-93).  One call runs at a time.     *)
(***************************************************************************)
\* The record createSession stores, null being "null".
NewSession(id) ==
    [id |-> id, name |-> "New Echo", preview |-> "No messages yet.",
     subject |-> "null", wavespeed_voice_id |-> "null"]

\* The objects updateSession is called with: some fields, with new values.
SessionUpdates ==
    UNION {[keys -> {"a", "b"}] :
             keys \in SUBSET {"preview", "subject", "wavespeed_voice_id"}}

\* The value updateSession returns: null, or the record it stored.
Null == <<>>

UpdatesIdle ==
    /\ sessionTable = [s \in SessionIds |-> NoRow]
    /\ update = [pc |-> "idle"]
    /\ updates = 0

\* A sessions table with the session s1; no session s2 exists.
UpdatesInit ==
    /\ sessionTable = [s \in SessionIds |->
                         IF s = "s1" THEN Row(NewSession(s)) ELSE NoRow]
    /\ update = [pc |-> "idle"]
    /\ updates = 0

\* updateSession(sessionId, updates) is called.
UpdateSessionCalled(id, fields) ==
    /\ update.pc \in {"idle", "done"}
    /\ updates < MaxUpdates
    /\ updates' = updates + 1
    /\ update' = [pc |-> "get", id |-> id, fields |-> fields,
                  before |-> sessionTable, session |-> NoRow,
                  updated |-> NewSession(id), ret |-> Null]
    /\ UNCHANGED sessionTable
    /\ UNCHANGED <<callVars, streamVars, storeVars, settingsVars, replyVars>>
    /\ UNCHANGED besidesUpdates

\* updateSession storing the given fields also when no session was found.
UpdateSessionLookupUpserting ==
    /\ update.pc = "get"
    /\ LET session == sessionTable[update.id]
       IN  update' = [update EXCEPT
                        !.session = session,
                        !.updated = IF session = NoRow
                                    THEN Spread(NewSession(update.id),
                                                update.fields)
                                    ELSE Spread(Value(session), update.fields),
                        !.pc = "put"]
    /\ UNCHANGED <<sessionTable, updates>>
    /\ UNCHANGED <<callVars, streamVars, storeVars, settingsVars, replyVars>>
    /\ UNCHANGED besidesUpdates

\* const session = await db.sessions.get(sessionId);
\* if (!session) return null;
\* const updated = { ...session, ...updates }
UpdateSessionLookup ==
    /\ update.pc = "get"
    /\ LET session == sessionTable[update.id]
       IN  update' = IF session = NoRow
                     THEN [update EXCEPT !.session = session,
                                         !.ret = Null,
                                         !.pc = "done"]
                     ELSE [update EXCEPT
                             !.session = session,
                             !.updated = Spread(Value(session), update.fields),
                             !.pc = "put"]
    /\ UNCHANGED <<sessionTable, updates>>
    /\ UNCHANGED <<callVars, streamVars, storeVars, settingsVars, replyVars>>
    /\ UNCHANGED besidesUpdates

\* await db.sessions.put(updated); return updated
UpdateSessionStore ==
    /\ update.pc = "put"
    /\ sessionTable' = [sessionTable EXCEPT ![update.id] = Row(update.updated)]
    /\ update' = [update EXCEPT !.ret = <<update.updated>>, !.pc = "done"]
    /\ UNCHANGED updates
    /\ UNCHANGED <<callVars, streamVars, storeVars, settingsVars, replyVars>>
    /\ UNCHANGED besidesUpdates

UpdatesNext ==
    \/ \E id \in SessionIds, fields \in SessionUpdates :
          UpdateSessionCalled(id, fields)
    \/ UpdateSessionLookup
    \/ UpdateSessionStore

(***************************************************************************)
(* Part 8: getVoiceStatus (api.js 626-666).  A timestamp is the number of  *)
(* milliseconds new Date(..).getTime() gives for the stored ISO string,    *)
(* which toISOString wrote with millisecond precision.                     *)
(***************************************************************************)
\* Date.now() at the call.
Clock == (MaxElapsedDays + 1) * MsPerDay

\* The ages a timestamp may have: whole days, and a millisecond less than
\* the next whole day.
Ages ==
    {d * MsPerDay + ms : d \in 0..MaxElapsedDays, ms \in {0, MsPerDay - 1}}

\* A stored timestamp: null, or a time of that age.
Timestamps == {None} \cup {Some(Clock - age) : age \in Ages}

VoiceRows ==
    {NoRow} \cup
    {Row([wavespeed_voice_id |-> v, voice_last_used_at |-> used,
          voice_created_at |-> created]) :
        v \in {None, Some("voice1")},
        used \in Timestamps,
        created \in Timestamps \ {None}}

NoStatus == [has_voice |-> FALSE, voice_status |-> "pending"]

VoiceIdle ==
    /\ voiceRow = NoRow
    /\ now = 0
    /\ voiceSession = NoRow
    /\ voiceStatus = NoStatus
    /\ voicePc = "idle"

\* getVoiceStatus(sessionId) is called.
VoiceInit ==
    /\ voiceRow \in VoiceRows
    /\ now = Clock
    /\ voiceSession = NoRow
    /\ voiceStatus = NoStatus
    /\ voicePc = "getSession"

\* const session = await Storage.getSession(sessionId)
VoiceGetSession ==
    /\ voicePc = "getSession"
    /\ voiceSession' = voiceRow
    /\ voicePc' = "compute"
    /\ UNCHANGED <<voiceRow, now, voiceStatus>>
    /\ UNCHANGED <<callVars, streamVars, storeVars, settingsVars, replyVars>>
    /\ UNCHANGED besidesVoice

\* Math.floor((Date.now() - lastDt.getTime()) / (1000 * 60 * 60 * 24))
Elapsed(clock, lastDt) == (clock - lastDt) \div MsPerDay

\* Math.max(0, 7 - elapsed)
DaysLeft(elapsed) ==
    IF ExpiryDays - elapsed > 0 THEN ExpiryDays - elapsed ELSE 0

\* The status with the warning beginning a day earlier.
StatusOfEarlyWarning(daysLeft) ==
    IF daysLeft <= 0 THEN "expired"
    ELSE IF daysLeft <= WarningDays + 1 THEN "warning"
    ELSE "active"

\* if (daysLeft <= 0) 'expired' else if (daysLeft <= 2) 'warning'
StatusOf(daysLeft) ==
    IF daysLeft <= 0 THEN "expired"
    ELSE IF daysLeft <= WarningDays THEN "warning"
    ELSE "active"

\* session.voice_last_used_at || session.voice_created_at
LastUsed(session) ==
    IF session.voice_last_used_at # None THEN session.voice_last_used_at
    ELSE session.voice_created_at

\* The object getVoiceStatus returns for the session it read.
VoiceStatusOf(row, clock) ==
    IF row = NoRow THEN [has_voice |-> FALSE, voice_status |-> "none"]
    ELSE IF Value(row).wavespeed_voice_id = None
    THEN [has_voice |-> FALSE, voice_status |-> "none"]
    ELSE LET lastUsed == LastUsed(Value(row))
             daysLeft == IF lastUsed = None THEN ExpiryDays
                         ELSE DaysLeft(Elapsed(clock, lastUsed[1]))
         IN  [has_voice |-> TRUE,
              voice_status |-> IF lastUsed = None THEN "active"
                               ELSE StatusOf(daysLeft),
              days_remaining |-> daysLeft]

\* The rest of getVoiceStatus, which awaits nothing.
VoiceCompute ==
    /\ voicePc = "compute"
    /\ voiceStatus' = VoiceStatusOf(voiceSession, now)
    /\ voicePc' = "done"
    /\ UNCHANGED <<voiceRow, now, voiceSession>>
    /\ UNCHANGED <<callVars, streamVars, storeVars, settingsVars, replyVars>>
    /\ UNCHANGED besidesVoice

VoiceNext ==
    \/ VoiceGetSession
    \/ VoiceCompute

(***************************************************************************)
(* Part 9: the uploads table (storage.js 133-183) with uploadFile,         *)
(* setSubject, deleteUploadedFile and checkRefreshReady (api.js).  One     *)
(* call runs at a time; uploadFile takes a step at each await.             *)
(***************************************************************************)
\* The files of a batch: without a name, or with a name of some extension.
TextFiles ==
    {[named |-> FALSE, ext |-> ""]} \cup
    {[named |-> TRUE, ext |-> x] : x \in {"txt", "TXT", "exe", "zip"}}
VoiceFiles ==
    {[named |-> FALSE, ext |-> ""], [named |-> TRUE, ext |-> "wav"]}

Batches(fileType) ==
    UNION {[1..n -> IF fileType = "text" THEN TextFiles ELSE VoiceFiles] :
             n \in 1..MaxBatch}

\* file.name.toLowerCase().split('.').pop()
Ext(f) == IF f.ext = "TXT" THEN "txt" ELSE f.ext

ValidTextExt == {"txt", "json", "zip", "html"}

Subjects == {"Alice"}

NoBatch == [pc |-> "idle"]
NoCheck == [pc |-> "idle"]

UploadsIdle ==
    /\ uploadRows = {}
    /\ uploadKey = 0
    /\ fileIds = 0
    /\ batch = NoBatch
    /\ ready = NoCheck
    /\ apiCalls = 0

\* The session s1 has no upload yet; another session has a text upload
\* without a subject.
UploadsInit ==
    /\ uploadRows = {[id |-> 1, session_id |-> "s2", type |-> "text",
                      file_id |-> 1, original_name |-> 1, subject |-> None]}
    /\ uploadKey = 1
    /\ fileIds = 1
    /\ batch = NoBatch
    /\ ready = NoCheck
    /\ apiCalls = 0

NoCallRunning == batch.pc \in {"idle", "done"}

\* The value uploadFile returns: the two lists, the result of
\* processZipFile ("zip"), or a rejection ("thrown").
Returned(kind, uploaded, rejected) ==
    [kind |-> kind, uploaded |-> uploaded, rejected |-> rejected]

\* The loop of uploadFile from file i up to its next await or its return.
RECURSIVE Advance(_, _)
Advance(b, i) ==
    IF i > Len(b.files)
    THEN [b EXCEPT !.pc = "done", !.index = i,
                   !.ret = Returned("lists", b.uploaded, b.rejected)]
    ELSE LET f == b.files[i]
         IN  IF ~f.named THEN Advance(b, i + 1)
             ELSE IF b.fileType = "text" /\ Ext(f) \notin ValidTextExt
             THEN Advance([b EXCEPT !.rejected =
                               Append(@, [name |-> i,
                                          reason |-> "Invalid extension"])],
                          i + 1)
             ELSE IF b.fileType = "text" /\ Ext(f) = "zip"
             THEN [b EXCEPT !.pc = "zip", !.index = i]
             ELSE IF b.fileType = "text"
             THEN [b EXCEPT !.pc = "detect", !.index = i]
             ELSE [b EXCEPT !.pc = "add", !.index = i]

\* uploadFile(sessionId, files, fileType) is called.
UploadFileCalled(sid, fileType, files) ==
    /\ NoCallRunning
    /\ apiCalls < MaxApiCalls
    /\ apiCalls' = apiCalls + 1
    /\ batch' = Advance([pc |-> "loop", sid |-> sid, fileType |-> fileType,
                         files |-> files, index |-> 1, uploaded |-> <<>>,
                         rejected |-> <<>>, stored |-> {},
                         ret |-> Returned("none", <<>>, <<>>)], 1)
    /\ UNCHANGED <<uploadRows, uploadKey, fileIds, ready>>
    /\ UNCHANGED <<callVars, streamVars, storeVars, settingsVars, replyVars>>
    /\ UNCHANGED besidesUploads

\* await processZipFile(sessionId, file): its result is returned at once, or
\* its failure puts the file on the rejected list.
UploadZip(ok) ==
    /\ batch.pc = "zip"
    /\ batch' = IF ok
                THEN [batch EXCEPT !.pc = "done",
                                   !.ret = Returned("zip", <<>>, <<>>)]
                ELSE Advance([batch EXCEPT !.rejected =
                                 Append(@, [name |-> batch.index,
                                            reason |-> "ZIP error"])],
                             batch.index + 1)
    /\ UNCHANGED <<uploadRows, uploadKey, fileIds, ready, apiCalls>>
    /\ UNCHANGED <<callVars, streamVars, storeVars, settingsVars, replyVars>>
    /\ UNCHANGED besidesUploads

\* metadata = await detectFileMetadata(file), a failure being caught: in
\* both cases the file goes on to addUpload, with no subject.
UploadDetect(ok) ==
    /\ batch.pc = "detect"
    /\ batch' = [batch EXCEPT !.pc = "add"]
    /\ UNCHANGED <<uploadRows, uploadKey, fileIds, ready, apiCalls>>
    /\ UNCHANGED <<callVars, streamVars, storeVars, settingsVars, replyVars>>
    /\ UNCHANGED besidesUploads

\* const upload = await Storage.addUpload(..); uploaded.push(..).  When
\* file.arrayBuffer() or db.uploads.add rejects, so does uploadFile.
UploadAdd(ok) ==
    /\ batch.pc = "add"
    /\ IF ok
       THEN /\ uploadRows' = uploadRows \cup
                   {[id |-> uploadKey + 1, session_id |-> batch.sid,
                     type |-> batch.fileType, file_id |-> fileIds + 1,
                     original_name |-> batch.index, subject |-> None]}
            /\ uploadKey' = uploadKey + 1
            /\ fileIds' = fileIds + 1
            /\ batch' = Advance([batch EXCEPT
                                   !.uploaded =
                                       Append(@, [id |-> fileIds + 1,
                                                  original_name |-> batch.index]),
                                   !.stored = @ \cup {batch.index}],
                                batch.index + 1)
       ELSE /\ batch' = [batch EXCEPT !.pc = "done",
                                      !.ret = Returned("thrown", <<>>, <<>>)]
            /\ UNCHANGED <<uploadRows, uploadKey, fileIds>>
    /\ UNCHANGED <<ready, apiCalls>>
    /\ UNCHANGED <<callVars, streamVars, storeVars, settingsVars, replyVars>>
    /\ UNCHANGED besidesUploads

\* getUpload: uploads[0] || null
GetUpload(rows, sid, fileId) ==
    LET found == {row \in rows : row.session_id = sid /\ row.file_id = fileId}
    IN  IF found = {} THEN <<>>
        ELSE <<CHOOSE row \in found : \A other \in found : row.id <= other.id>>

\* setSubject(sessionId, fileId, subject): updateUpload stores
\* { ...upload, subject }; an unknown file makes setSubject throw.
SetSubject(sid, fileId, subject) ==
    /\ NoCallRunning
    /\ apiCalls < MaxApiCalls
    /\ apiCalls' = apiCalls + 1
    /\ LET upload == GetUpload(uploadRows, sid, fileId)
       IN  uploadRows' =
             IF upload = <<>> THEN uploadRows
             ELSE {row \in uploadRows : row.id # upload[1].id} \cup
                  {[upload[1] EXCEPT !.subject = Some(subject)]}
    /\ UNCHANGED <<uploadKey, fileIds, batch, ready>>
    /\ UNCHANGED <<callVars, streamVars, storeVars, settingsVars, replyVars>>
    /\ UNCHANGED besidesUploads

\* deleteUploadedFile(sessionId, fileType, fileId)
DeleteUploadedFile(sid, fileId) ==
    /\ NoCallRunning
    /\ apiCalls < MaxApiCalls
    /\ apiCalls' = apiCalls + 1
    /\ uploadRows' = {row \in uploadRows :
                        ~(row.session_id = sid /\ row.file_id = fileId)}
    /\ UNCHANGED <<uploadKey, fileIds, batch, ready>>
    /\ UNCHANGED <<callVars, streamVars, storeVars, settingsVars, replyVars>>
    /\ UNCHANGED besidesUploads

\* getUploads without the filter on the type.
GetUploadsOfAnyType(rows, sid, fileType) ==
    {row \in rows : row.session_id = sid}

\* getUploads(sessionId, fileType)
GetUploads(rows, sid, fileType) ==
    {row \in rows : row.session_id = sid /\ row.type = fileType}

\* checkRefreshReady(sessionId), "" being no session id.
CheckRefreshReady(sid) ==
    /\ NoCallRunning
    /\ apiCalls < MaxApiCalls
    /\ apiCalls' = apiCalls + 1
    /\ LET found == GetUploads(uploadRows, sid, "text")
           withoutSubject == {u \in found : u.subject = None}
       IN  ready' = [pc |-> "done", sid |-> sid, rows |-> uploadRows,
                     ready |-> sid # "" /\ found # {} /\ withoutSubject = {},
                     reason |-> IF sid = "" THEN "No session selected"
                                ELSE IF found = {} THEN "No files uploaded"
                                ELSE IF withoutSubject # {}
                                THEN "Missing subjects" ELSE ""]
    /\ UNCHANGED <<uploadRows, uploadKey, fileIds, batch>>
    /\ UNCHANGED <<callVars, streamVars, storeVars, settingsVars, replyVars>>
    /\ UNCHANGED besidesUploads

UploadsNext ==
    \/ \E fileType \in {"text", "voice"} : \E files \in Batches(fileType) :
          UploadFileCalled("s1", fileType, files)
    \/ \E ok \in BOOLEAN : UploadZip(ok)
    \/ \E ok \in BOOLEAN : UploadDetect(ok)
    \/ \E ok \in BOOLEAN : UploadAdd(ok)
    \/ \E fileId \in 1..fileIds, subject \in Subjects :
          SetSubject("s1", fileId, subject)
    \/ \E fileId \in 1..fileIds : DeleteUploadedFile("s1", fileId)
    \/ \E sid \in SessionIds \cup {""} : CheckRefreshReady(sid)

(***************************************************************************)
(* Part 10: warmupModels (api.js 586-595), which handleCallToggle calls    *)
(* without awaiting it when a call starts (ChatInterface.jsx 295-303).     *)
(***************************************************************************)
WarmupsIdle == warmups = <<>>

FetchOutcomes == {"network error", "not ok", "ok"}

\* await fetch(..) settles.  A network error, and the Error thrown for a
\* response that is not ok, are caught: the call resolves to
\* { status: 'error' }.  For a response that is ok the call returns the
\* promise of response.json().
WarmupResponse(k, outcome) ==
    /\ k \in 1..Len(warmups)
    /\ warmups[k].pc = "fetching"
    /\ warmups' = [warmups EXCEPT ![k] =
                     IF outcome = "ok"
                     THEN [pc |-> "parsing", outcome |-> outcome, value |-> ""]
                     ELSE [pc |-> "resolved", outcome |-> outcome,
                           value |-> "status: error"]]
    /\ UNCHANGED <<callVars, streamVars, storeVars, settingsVars, replyVars>>
    /\ UNCHANGED besidesWarmups

\* The promise of response.json() settles; it was returned, not awaited,
\* inside the try, so the call settles as that promise does.
WarmupJson(k, ok) ==
    /\ k \in 1..Len(warmups)
    /\ warmups[k].pc = "parsing"
    /\ warmups' = [warmups EXCEPT ![k] =
                     IF ok
                     THEN [@ EXCEPT !.pc = "resolved", !.value = "body"]
                     ELSE [@ EXCEPT !.pc = "rejected", !.value = "SyntaxError"]]
    /\ UNCHANGED <<callVars, streamVars, storeVars, settingsVars, replyVars>>
    /\ UNCHANGED besidesWarmups

\* A call from its start to its first recognitions, with its warm-up.
WarmupNext ==
    \/ CallStart
    \/ CallEnd
    \/ \E r \in 1..MaxRecs : r <= Len(recs) /\ RecOnStart(r)
    \/ \E r \in 1..MaxRecs, a \in BOOLEAN : r <= Len(recs) /\ RecOnError(r, a)
    \/ \E r \in 1..MaxRecs : r <= Len(recs) /\ RecOnEnd(r)
    \/ ListenTimer
    \/ \E k \in 1..MaxCalls, outcome \in FetchOutcomes :
          WarmupResponse(k, outcome)
    \/ \E k \in 1..MaxCalls, ok \in BOOLEAN : WarmupJson(k, ok)

(***************************************************************************)
(* Part 11: handleClearChat (ChatInterface.jsx 41-51) and                  *)
(* handleDeleteSession (Sidebar) over the store.  confirm() blocks, so a   *)
(* click and the answer to the dialog are one step; every await of the     *)
(* handler is another step.                                                *)
(***************************************************************************)
\* The tables deleteSession empties, in its order.
DeleteOrder == <<"sessions", "messages", "preprocessed", "uploads", "images">>

\* Two sessions with messages; the first is the active one and is shown.
UiInit ==
    /\ uiStore = [rows |-> [t \in Range(DeleteOrder) |-> SessionIds],
                  messages |-> [sid \in SessionIds |->
                                   IF sid = "s1" THEN 2 ELSE 1]]
    /\ shownSessions = <<"s1", "s2">>
    /\ activeSession = "s1"
    /\ chatSession = "s1"
    /\ shownMessages = 2
    /\ needFetch = FALSE
    /\ uiOps = <<>>

UiIdle == UiInit

\* A run of a handler: what was clicked, what confirm() returned, whether
\* the API function was called, and the sessions and activeSession of the
\* render the handler belongs to.
UiOp(kind, sid, answer) ==
    [kind |-> kind, sid |-> sid, answer |-> answer, called |-> answer,
     pc |-> IF answer THEN "await" ELSE "returned", step |-> 1,
     sessions |-> shownSessions, active |-> activeSession]

\* handleClearChat that does not look at the answer.
ClearChatClickedUnasked(answer) ==
    /\ Len(uiOps) < MaxUiOps
    /\ uiOps' = Append(uiOps, [UiOp("clear", chatSession, answer) EXCEPT
                                  !.called = TRUE, !.pc = "await"])
    /\ UNCHANGED <<uiStore, shownSessions, activeSession, chatSession,
                   shownMessages, needFetch>>
    /\ UNCHANGED <<callVars, streamVars, storeVars, settingsVars, replyVars>>
    /\ UNCHANGED besidesUi

\* handleClearChat up to its await: if (!confirm(..)) return; then
\* clearChatHistory(sessionId) is called.
ClearChatClicked(answer) ==
    /\ Len(uiOps) < MaxUiOps
    /\ uiOps' = Append(uiOps, UiOp("clear", chatSession, answer))
    /\ UNCHANGED <<uiStore, shownSessions, activeSession, chatSession,
                   shownMessages, needFetch>>
    /\ UNCHANGED <<callVars, streamVars, storeVars, settingsVars, replyVars>>
    /\ UNCHANGED besidesUi

\* clearChatHistory settles: clearMessages has put { session_id, messages:
\* [] } and setMessages([]) follows, or the put failed and the catch alerts.
ClearChatSettled(k, ok) ==
    /\ k \in 1..Len(uiOps)
    /\ uiOps[k].kind = "clear" /\ uiOps[k].pc = "await"
    /\ IF ok
       THEN /\ uiStore' = [uiStore EXCEPT
                  !.rows["messages"] = @ \cup {uiOps[k].sid},
                  !.messages[uiOps[k].sid] = 0]
            /\ shownMessages' = 0
            /\ uiOps' = [uiOps EXCEPT ![k].pc = "returned"]
       ELSE /\ uiOps' = [uiOps EXCEPT ![k].pc = "alerted"]
            /\ UNCHANGED <<uiStore, shownMessages>>
    /\ UNCHANGED <<shownSessions, activeSession, chatSession, needFetch>>
    /\ UNCHANGED <<callVars, streamVars, storeVars, settingsVars, replyVars>>
    /\ UNCHANGED besidesUi

\* handleDeleteSession up to its await: if (!confirm(..)) return; then
\* deleteSession(sessionId) is called.
DeleteSessionClicked(sid, answer) ==
    /\ Len(uiOps) < MaxUiOps
    /\ sid \in Range(shownSessions)
    /\ uiOps' = Append(uiOps, UiOp("delete", sid, answer))
    /\ UNCHANGED <<uiStore, shownSessions, activeSession, chatSession,
                   shownMessages, needFetch>>
    /\ UNCHANGED <<callVars, streamVars, storeVars, settingsVars, replyVars>>
    /\ UNCHANGED besidesUi

\* prev.filter(s => s.id !== sessionId)
Without(list, sid) == SelectSeq(list, LAMBDA s : s # sid)

\* One delete of Storage.deleteSession settles.  After the last one the
\* handler goes on: the session leaves the list, and when it was the active
\* one of several the first of the others becomes active.  A delete that
\* fails ends the handler in its catch.
DeleteSessionStep(k, ok) ==
    /\ k \in 1..Len(uiOps)
    /\ uiOps[k].kind = "delete" /\ uiOps[k].pc = "await"
    /\ LET op == uiOps[k]
           remaining == Without(op.sessions, op.sid)
           switch == /\ op.active = op.sid /\ Len(op.sessions) > 1
                     /\ remaining # <<>>
       IN  IF ~ok
           THEN /\ uiOps' = [uiOps EXCEPT ![k].pc = "alerted"]
                /\ UNCHANGED <<uiStore, shownSessions, activeSession,
                               chatSession, needFetch>>
           ELSE /\ uiStore' = [uiStore EXCEPT
                      !.rows[DeleteOrder[op.step]] = @ \ {op.sid},
                      !.messages[op.sid] =
                          IF DeleteOrder[op.step] = "messages" THEN 0 ELSE @]
                /\ IF op.step < Len(DeleteOrder)
                   THEN /\ uiOps' = [uiOps EXCEPT ![k].step = @ + 1]
                        /\ UNCHANGED <<shownSessions, activeSession,
                                       chatSession, needFetch>>
                   ELSE /\ uiOps' = [uiOps EXCEPT ![k].pc = "returned"]
                        /\ shownSessions' = Without(shownSessions, op.sid)
                        /\ activeSession' =
                              IF switch THEN remaining[1] ELSE activeSession
                        /\ chatSession' =
                              IF switch THEN remaining[1] ELSE chatSession
                        /\ needFetch' = (switch \/ needFetch)
    /\ UNCHANGED shownMessages
    /\ UNCHANGED <<callVars, streamVars, storeVars, settingsVars, replyVars>>
    /\ UNCHANGED besidesUi

\* The effect of ChatInterface on a new sessionId: getMessages, setMessages.
FetchMessages ==
    /\ needFetch
    /\ needFetch' = FALSE
    /\ shownMessages' = uiStore.messages[chatSession]
    /\ UNCHANGED <<uiStore, shownSessions, activeSession, chatSession, uiOps>>
    /\ UNCHANGED <<callVars, streamVars, storeVars, settingsVars, replyVars>>
    /\ UNCHANGED besidesUi

UiNext ==
    \/ \E answer \in BOOLEAN : ClearChatClicked(answer)
    \/ \E k \in 1..MaxUiOps, ok \in BOOLEAN : ClearChatSettled(k, ok)
    \/ \E sid \in SessionIds, answer \in BOOLEAN :
          DeleteSessionClicked(sid, answer)
    \/ \E k \in 1..MaxUiOps, ok \in BOOLEAN : DeleteSessionStep(k, ok)
    \/ FetchMessages

(***************************************************************************)
(* Part 12: the history of a chat request (api.js 198-243) and the         *)
(* messages sendMessage stores afterwards (api.js 303-316, storage.js      *)
(* 105-125), for one session.  A message is its id.                        *)
(***************************************************************************)
HistSends == 1..MaxHistSends

NoSend == [pc |-> "idle", own |-> 0, reply |-> 0, read |-> <<>>,
           history |-> <<>>, got |-> <<>>]

HistIdle ==
    /\ histList = <<>>
    /\ histIds = 0
    /\ histOps = [k \in HistSends |-> NoSend]

\* The session holds the messages of earlier exchanges.
HistInit ==
    /\ \E n \in 0..MaxStoredAtLoad : histList = [k \in 1..n |-> k]
    /\ histIds = Len(histList)
    /\ histOps = [k \in HistSends |-> NoSend]

\* Array.prototype.slice(begin) with one argument: a negative begin counts
\* from the end and stops at the first element.
JsSlice(list, begin) ==
    LET len == Len(list)
        start == IF begin < 0
                 THEN (IF len + begin < 0 THEN 0 ELSE len + begin)
                 ELSE (IF begin > len THEN len ELSE begin)
    IN  SubSeq(list, start + 1, len)

\* The oldest messages instead of the latest.
HistorySliceOldest(list) ==
    SubSeq(list, 1, IF Len(list) < HistoryLimit THEN Len(list)
                    ELSE HistoryLimit)

\* history.slice(-20)
HistorySlice(list) == JsSlice(list, 0 - HistoryLimit)

\* sendMessage(content, sessionId, file) is called; own is the id the
\* message being sent will carry.
HistSendStart(k) ==
    /\ histOps[k].pc = "idle"
    /\ \A j \in HistSends : j < k => histOps[j].pc # "idle"
    /\ histIds' = histIds + 1
    /\ histOps' = [histOps EXCEPT ![k] = [NoSend EXCEPT !.pc = "getMessages",
                                                      !.own = histIds + 1]]
    /\ UNCHANGED histList
    /\ UNCHANGED <<callVars, streamVars, storeVars, settingsVars, replyVars>>
    /\ UNCHANGED besidesHist

\* const history = await Storage.getMessages(sessionId); the remaining reads
\* resolve and the request is built with history.slice(-20) and sent.
HistGetMessages(k) ==
    /\ histOps[k].pc = "getMessages"
    /\ histOps' = [histOps EXCEPT ![k].pc = "fetch",
                                  ![k].read = histList,
                                  ![k].history = HistorySlice(histList)]
    /\ UNCHANGED <<histList, histIds>>
    /\ UNCHANGED <<callVars, streamVars, storeVars, settingsVars, replyVars>>
    /\ UNCHANGED besidesHist

\* The request fails, or the response brings user_message and ai_message.
HistResponse(k, ok) ==
    /\ histOps[k].pc = "fetch"
    /\ histOps' = [histOps EXCEPT
                     ![k].pc = IF ok THEN "addUser.get" ELSE "failed",
                     ![k].reply = IF ok THEN histIds + 1 ELSE 0]
    /\ histIds' = IF ok THEN histIds + 1 ELSE histIds
    /\ UNCHANGED histList
    /\ UNCHANGED <<callVars, streamVars, storeVars, settingsVars, replyVars>>
    /\ UNCHANGED besidesHist

\* addMessage: const messages = await getMessages(sessionId)
HistAddGet(k) ==
    /\ histOps[k].pc \in {"addUser.get", "addAi.get"}
    /\ histOps' = [histOps EXCEPT
                     ![k].got = histList,
                     ![k].pc = IF @ = "addUser.get" THEN "addUser.put"
                               ELSE "addAi.put"]
    /\ UNCHANGED <<histList, histIds>>
    /\ UNCHANGED <<callVars, streamVars, storeVars, settingsVars, replyVars>>
    /\ UNCHANGED besidesHist

\* addMessage: messages.push(message); await saveMessages(sessionId, messages)
HistAddPut(k) ==
    /\ histOps[k].pc \in {"addUser.put", "addAi.put"}
    /\ histList' = Append(histOps[k].got,
                          IF histOps[k].pc = "addUser.put"
                          THEN histOps[k].own ELSE histOps[k].reply)
    /\ histOps' = [histOps EXCEPT
                     ![k].pc = IF @ = "addUser.put" THEN "addAi.get"
                               ELSE "done"]
    /\ UNCHANGED histIds
    /\ UNCHANGED <<callVars, streamVars, storeVars, settingsVars, replyVars>>
    /\ UNCHANGED besidesHist

HistNext ==
    \/ \E k \in HistSends : HistSendStart(k)
    \/ \E k \in HistSends : HistGetMessages(k)
    \/ \E k \in HistSends, ok \in BOOLEAN : HistResponse(k, ok)
    \/ \E k \in HistSends : HistAddGet(k)
    \/ \E k \in HistSends : HistAddPut(k)

(***************************************************************************)
(* Part 13: the listening loop (ChatInterface.jsx 307-390) followed over   *)
(* more recognition instances than the whole call is.                      *)
(***************************************************************************)
RecsOfCall == recLimit = MaxRecs
RecsOfListen == recLimit = MaxListenRecs

ListenNext ==
    \/ CallStart
    \/ CallEnd
    \/ \E r \in 1..MaxListenRecs : r <= Len(recs) /\ RecOnStart(r)
    \/ \E r \in 1..MaxListenRecs : r <= Len(recs) /\ RecOnResult(r)
    \/ \E r \in 1..MaxListenRecs, a \in BOOLEAN :
          r <= Len(recs) /\ RecOnError(r, a)
    \/ \E r \in 1..MaxListenRecs : r <= Len(recs) /\ RecOnEnd(r)
    \/ ListenTimer
    \/ \E t \in Turns, ok \in BOOLEAN : StreamResponse(t, ok)
    \/ \E t \in Turns : StreamDone(t)
    \/ \E t \in Turns : CheckTimer(t)
    \/ \E t \in Turns : StreamError(t)
    \/ \E t \in Turns : StreamClose(t)
    \/ \E t \in Turns : StreamReadFail(t)

\* Parts 6 and later at rest.
LaterIdle ==
    /\ ImagesIdle /\ UpdatesIdle /\ VoiceIdle /\ UploadsIdle /\ WarmupsIdle
    /\ UiIdle /\ HistIdle /\ RecsOfCall

\* The voice call alone: no stream is being parsed, the store is untouched.
InitCall == CallInit /\ StreamIdle /\ StoreIdle /\ SettingsInit /\ ReplyIdle /\ LaterIdle
SpecCall == InitCall /\ [][CallNext]_vars

\* One response body read by the streaming loop.
InitStream == StreamInit /\ CallInit /\ StoreIdle /\ SettingsInit /\ ReplyIdle /\ LaterIdle
SpecStream == InitStream /\ [][StreamNext]_vars

\* The store and the calls of api.js that read and write it.
InitStore == StoreInit /\ CallInit /\ StreamIdle /\ SettingsInit /\ ReplyIdle /\ LaterIdle
SpecStore == InitStore /\ [][StoreNext]_vars

\* The settings row and the calls of saveSettings.
InitSettings == SettingsInit /\ CallInit /\ StreamIdle /\ StoreIdle /\ ReplyIdle /\ LaterIdle
SpecSettings == InitSettings /\ [][SettingsNext]_vars

\* One sendMessage from its response on.
InitReply == ReplyInit /\ CallInit /\ StreamIdle /\ StoreIdle /\ SettingsInit /\ LaterIdle
SpecReply == InitReply /\ [][ReplyNext]_vars

\* The calls of saveImage on an empty images table.
InitImages ==
    ImagesIdle /\ UpdatesIdle /\ VoiceIdle /\ UploadsIdle /\ WarmupsIdle /\ UiIdle /\ HistIdle /\ RecsOfCall /\ CallInit /\ StreamIdle /\ StoreIdle /\ SettingsInit /\ ReplyIdle
SpecImages == InitImages /\ [][ImagesNext]_vars

\* The calls of updateSession on a sessions table with one session.
InitUpdates ==
    /\ UpdatesInit /\ ImagesIdle /\ VoiceIdle /\ UploadsIdle
    /\ WarmupsIdle /\ UiIdle /\ HistIdle /\ RecsOfCall
    /\ CallInit /\ StreamIdle /\ StoreIdle /\ SettingsInit /\ ReplyIdle
SpecUpdates == InitUpdates /\ [][UpdatesNext]_vars

\* One call of getVoiceStatus, for every session row and age of the voice.
InitVoice ==
    /\ VoiceInit /\ ImagesIdle /\ UpdatesIdle /\ UploadsIdle
    /\ WarmupsIdle /\ UiIdle /\ HistIdle /\ RecsOfCall
    /\ CallInit /\ StreamIdle /\ StoreIdle /\ SettingsInit /\ ReplyIdle
SpecVoice == InitVoice /\ [][VoiceNext]_vars

\* The calls of uploadFile, setSubject, deleteUploadedFile and
\* checkRefreshReady, one at a time.
InitUploads ==
    /\ UploadsInit /\ ImagesIdle /\ UpdatesIdle /\ VoiceIdle
    /\ WarmupsIdle /\ UiIdle /\ HistIdle /\ RecsOfCall
    /\ CallInit /\ StreamIdle /\ StoreIdle /\ SettingsInit /\ ReplyIdle
SpecUploads == InitUploads /\ [][UploadsNext]_vars

\* The start of a call with its warm-up request.
InitWarmup ==
    CallInit /\ StreamIdle /\ StoreIdle /\ SettingsInit /\ ReplyIdle /\ LaterIdle
SpecWarmup == InitWarmup /\ [][WarmupNext]_vars

\* The clear and delete buttons.
InitUi ==
    /\ UiInit /\ ImagesIdle /\ UpdatesIdle /\ VoiceIdle /\ UploadsIdle
    /\ WarmupsIdle /\ HistIdle /\ RecsOfCall
    /\ CallInit /\ StreamIdle /\ StoreIdle /\ SettingsInit /\ ReplyIdle
SpecUi == InitUi /\ [][UiNext]_vars

\* The calls of sendMessage on a stored list of any length up to the bound.
InitHist ==
    /\ HistInit /\ ImagesIdle /\ UpdatesIdle /\ VoiceIdle /\ UploadsIdle
    /\ WarmupsIdle /\ UiIdle /\ RecsOfCall
    /\ CallInit /\ StreamIdle /\ StoreIdle /\ SettingsInit /\ ReplyIdle
SpecHist == InitHist /\ [][HistNext]_vars

\* The listening loop of a call without its audio: recognition events,
\* restart timers and the callbacks of the stream that end a turn.
InitListen ==
    /\ RecsOfListen /\ ImagesIdle /\ UpdatesIdle /\ VoiceIdle /\ UploadsIdle
    /\ WarmupsIdle /\ UiIdle /\ HistIdle
    /\ CallInit /\ StreamIdle /\ StoreIdle /\ SettingsInit /\ ReplyIdle
SpecListen == InitListen /\ [][ListenNext]_vars

\* The same, every timer set by onerror or onend firing in the end.
SpecListenLive == SpecListen /\ WF_vars(ListenTimer)

(***************************************************************************)
(* Claims about the voice call                                             *)
(***************************************************************************)

\* C1: the chunks of one turn, handed to playAudioChunk in the order 1..N,
\* are started for playback in the order 1..N, whatever the order in which
\* their decodes complete.
C1_PlaybackInSubmissionOrder ==
    \A i, j \in 1..Len(played) :
        (i < j /\ played[i][1] = played[j][1]) => played[i][2] < played[j][2]

\* C2: a finished callback registered by 'done' when nothing is queued,
\* decoding or playing, the call staying active, is invoked exactly once:
\* once its deferred check has run it has been invoked, and no callback is
\* ever invoked a second time.
C2_FinishedExactlyOnce ==
    /\ \A t \in Turns : finishedCalls[t] <= 1
    /\ \A t \in armedIdle : t \notin checkTimers => finishedCalls[t] = 1

\* C2 witness: a callback registered at such a moment has been fired by the
\* deferred check.
C2_Witness ==
    \E t \in armedIdle : t \notin checkTimers /\ finishedCalls[t] = 1

\* C3: every step that invokes the finished callback ends with the queue
\* empty, the pending-decode counter zero and the playing flag clear, and
\* with no chunk decoding or sounding.
C3_FinishedOnlyWhenDrained ==
    [][finishedCalls' # finishedCalls =>
         /\ audioQueue' = <<>>
         /\ pendingDecodes' = 0
         /\ ~isPlaying'
         /\ decoding' = {}
         /\ source' = NoChunk]_vars

\* C3 witness: a turn whose chunks were played has had its callback invoked.
C3_Witness ==
    \E t \in Turns :
        /\ finishedCalls[t] = 1
        /\ \E i \in 1..Len(played) : played[i][1] = t

(***************************************************************************)
(* Claims about the streaming loop                                         *)
(***************************************************************************)

\* C4: however the body is cut into reads, the loop has invoked, when it
\* ends, the callbacks with the arguments and in the order it invokes when
\* the whole body arrives in one read.
C4_FragmentationInvariant ==
    streamPc = "done" =>
        dispatched = ProcessRead(<<>>, <<>>, wire, mode, handlers).calls

\* C4 witness: a body of newline-terminated event lines, cut inside a line,
\* has been read to its end and its events dispatched.
C4_Witness ==
    /\ streamPc = "done"
    /\ carried
    /\ terminated
    /\ Len(events) >= 2
    /\ \A i \in 1..Len(events) : WellFormed(events[i])
    /\ Len(dispatched) >= 2

\* The callback the protocol designates for a discriminator value.
Designated(m, disc, h) ==
    IF m = "voice"
    THEN CASE disc = "t" -> "onText"
           [] disc = "a" -> "onAudio"
           [] disc = "s" -> "onStatus"
           [] disc = "d" -> "onDone"
           [] disc = "e" -> "onError"
           [] OTHER -> "none"
    ELSE CASE disc = "c" -> "onComplete"
           [] disc = "e" /\ "onError" \in h -> "onError"
           [] OTHER -> "onProgress"

RECURSIVE EventCalls(_, _, _, _, _)
\* The calls the newline-terminated well-formed lines from the n-th on stand
\* for.
EventCalls(ls, n, term, m, h) ==
    IF n > Len(ls) THEN <<>>
    ELSE (IF /\ WellFormed(ls[n])
             /\ (n < Len(ls) \/ term)
             /\ Designated(m, ls[n].disc, h) \in h
          THEN <<Call(Designated(m, ls[n].disc, h), Content(ls[n], n))>>
          ELSE <<>>)
         \o EventCalls(ls, n + 1, term, m, h)

\* C5: a line whose payload is not JSON is discarded and nothing else: when
\* the loop ends, the callbacks invoked are exactly those of the well-formed
\* terminated lines, in order, before and after the malformed line, and no
\* onError stands for the malformed line.
C5_MalformedLineDiscarded ==
    streamPc = "done" =>
        dispatched = EventCalls(events, 1, terminated, mode, handlers)

\* C5 witness: a malformed line between two well-formed events, both of
\* which were dispatched.
C5_Witness ==
    /\ streamPc = "done"
    /\ Len(events) = 3
    /\ WellFormed(events[1])
    /\ events[2].form = "malformed"
    /\ WellFormed(events[3])
    /\ terminated
    /\ Len(dispatched) = 2
    /\ dispatched[1].arg = Content(events[1], 1)
    /\ dispatched[2].arg = Content(events[3], 3)

(***************************************************************************)
(* Claims about the store and the embeddings-cache flag.                   *)
(***************************************************************************)
\* No row of any table belongs to session s.
Gone(s) ==
    /\ sessions[s] = NoRow
    /\ messages[s] = NoRow
    /\ preprocessed[s] = NoRow
    /\ RowsOf(uploads, s) = {}
    /\ RowsOf(images, s) = {}

\* The rows of session s, table by table.
RowsOfSession(s) ==
    <<sessions[s], messages[s], preprocessed[s], RowsOf(uploads, s),
      RowsOf(images, s)>>

\* A send whose request has been built.
Built(op) ==
    /\ op.pc \notin {"idle", "getPreprocessed", "build"}
    /\ op.kind # "refresh"

\* What a request must carry to hold the embeddings the send read.
FullPayload(op) ==
    LET emb == IF op.pre = NoRow THEN Object(0) ELSE Value(op.pre).embeddings
    IN  IF op.form = "multipart" THEN <<"json", emb[2]>> ELSE emb

\* What a request carries when it holds no embeddings.
NoPayload(op) ==
    IF op.form = "multipart" THEN <<"json", 0>> ELSE <<"absent", 0>>

\* C6: every step of deleteSession(S) leaves the rows of every other session
\* as they were, and when the last step has run with no other operation on S
\* in flight since the call, no table holds a row of S.
C6_CascadeDelete ==
    [][(del.pc \notin {"idle", "done"} /\ del'.pc # del.pc) =>
          /\ \A s \in SessionIds \ {del.sid} :
                RowsOfSession(s)' = RowsOfSession(s)
          /\ (del'.pc = "done" /\ del'.quiet) => Gone(del.sid)']_vars

\* A deleteSession(S) has completed undisturbed, S had messages and an image
\* from a completed send, and the other session still has its rows.
C6_Witness ==
    /\ del.pc = "done"
    /\ del.quiet
    /\ Gone(del.sid)
    /\ \E i \in Ops : /\ ops[i].pc = "done"
                      /\ ops[i].sid = del.sid
                      /\ ops[i].form = "multipart"
    /\ \E s \in SessionIds \ {del.sid} :
          sessions[s] # NoRow /\ RowsOf(uploads, s) # {}

\* C7: whenever no deleteSession is part-way through its deletes, every
\* message list, upload, image and preprocessed artifact belongs to a
\* session that has a row in the sessions table.
C7_NoRowOutlivesItsSession ==
    del.pc \in {"idle", "done"} =>
        \A s \in SessionIds : sessions[s] = NoRow => Gone(s)

\* C8: of two sendMessage calls for a session not yet cached, the second
\* started after the first returned and no other send for the session in
\* between, the first request carries the embeddings the session holds and
\* the second carries none: no key in JSON, '{}' in multipart.
C8_SecondSendOmitsEmbeddings ==
    \A i, j \in Ops :
        (/\ Built(ops[i]) /\ Built(ops[j])
         /\ ops[i].kind = "chat" /\ ops[j].kind = "chat"
         /\ ops[i].sid = ops[j].sid
         /\ i \in ops[j].after
         /\ ~ops[i].startCached /\ ops[i].alone)
        => /\ ops[i].emb = FullPayload(ops[i])
           /\ ops[j].emb = NoPayload(ops[j])
           /\ ops[i].pre # NoRow => ops[i].emb[2] > 0 /\ ops[j].emb[2] = 0

\* Two sendMessage calls in a row for s1, which holds embeddings, the first
\* as JSON and the second as multipart, and the second has been sent.
C8_Witness ==
    \E i, j \in Ops :
        /\ Built(ops[i]) /\ Built(ops[j])
        /\ ops[i].kind = "chat" /\ ops[j].kind = "chat"
        /\ ops[i].sid = "s1" /\ ops[j].sid = "s1"
        /\ i \in ops[j].after
        /\ ~ops[i].startCached /\ ops[i].alone
        /\ ops[i].pre # NoRow
        /\ ops[j].form = "multipart"

\* C9: a chat or voice send carries the full embeddings exactly when, at the
\* time it built its request, no request for that session had received a
\* response with a 2xx status.
C9_FullIffNoOkResponseYet ==
    \A i \in Ops :
        Built(ops[i]) =>
            /\ ops[i].full <=> (ops[i].okBefore = {})
            /\ ops[i].emb = IF ops[i].okBefore = {} THEN FullPayload(ops[i])
                            ELSE NoPayload(ops[i])

\* Two sends for s1, a chat and a voice one, built their requests before
\* either response arrived and both carried the full payload; both got a
\* 2xx response.
C9_Witness ==
    \E i, j \in Ops :
        /\ i # j
        /\ ops[i].pc = "done" /\ ops[j].pc = "done"
        /\ ops[i].kind = "chat" /\ ops[j].kind = "voice"
        /\ ops[i].sid = "s1" /\ ops[j].sid = "s1"
        /\ ops[i].full /\ ops[j].full
        /\ ops[i].emb = Object(1) /\ ops[j].emb = Object(1)

\* The sessions for which some send has received a 2xx response.
GotOk ==
    {ops[i].sid : i \in {k \in Ops : ops[k].pc # "idle" /\ ops[k].gotOk}}

\* C10 as stated: a sendMessage that ended in failure, with no other send
\* for the session having had a 2xx response, leaves the session out of
\* cachedSessions.
C10_FailedSendLeavesUncached ==
    \A i \in Ops :
        (/\ ops[i].pc = "failed"
         /\ ops[i].kind = "chat"
         /\ \A k \in Ops \ {i} :
               ops[k].pc # "idle" /\ ops[k].sid = ops[i].sid => ~ops[k].gotOk)
        => ops[i].sid \notin cachedSessions

\* C10, amended: cachedSessions holds exactly the sessions for which a send
\* received a 2xx response.  A sendMessage that failed because the request
\* could not complete or the status was not 2xx does not add its session; one
\* that failed because the body did not parse has added it.
C10_FlagFollowsOkResponse ==
    /\ cachedSessions = GotOk
    /\ \A i \in Ops :
          ops[i].pc = "failed" /\ ops[i].kind = "chat" =>
              /\ ops[i].fail \in {"network", "status"} => ~ops[i].gotOk
              /\ ops[i].fail = "parse" => ops[i].sid \in cachedSessions

\* One sendMessage failed on a non-2xx status and its session is not
\* cached; another failed on the body and its session is.
C10_Witness ==
    \E i, j \in Ops :
        /\ ops[i].pc = "failed" /\ ops[j].pc = "failed"
        /\ ops[i].kind = "chat" /\ ops[j].kind = "chat"
        /\ ops[i].fail = "status" /\ ops[j].fail = "parse"
        /\ ops[i].sid \notin cachedSessions
        /\ ops[j].sid \in cachedSessions

(***************************************************************************)
(* Claims about the end of a call                                          *)
(***************************************************************************)
\* C14: a finished callback that was pending when the user ended the call
\* is never invoked, whatever happens afterwards.
C14_CancelledCallbackNeverInvoked ==
    \A t \in cancelled : finishedCalls[t] = 0

\* The call was ended while the callback of a turn was pending and a buffer
\* was playing; since then the buffer has ended, the deferred check has run
\* and the stream has closed.
C14_Witness ==
    \E t \in cancelled :
        /\ ~isCallActive
        /\ t \notin checkTimers
        /\ turns[t].st = "closed"
        /\ Len(played) > 0
        /\ source = NoChunk
        /\ decoding = {}

\* C15: stream events that arrive after the user has ended the call have
\* no effect: no chunk of an 'audio' event received after the hangup is
\* played, and a 'done' or 'error' event (or the end of the stream) received
\* after the hangup neither changes the call status nor starts listening.
C15_LateStreamEventsIgnored ==
    [][/\ \A i \in 1..Len(played') : played'[i] \notin lateChunks'
       /\ \A t \in Turns :
            (~isCallActive /\ callStatus = "idle" /\ turns[t].st = "open"
                           /\ turns'[t].st # turns[t].st)
                => (callStatus' = "idle" /\ recs' = recs)]_vars

\* C16: ending the call is terminal for the recognition loop: while no call
\* is active, no step starts a new recognition session.
C16_NoRecognitionAfterHangup ==
    [][(~isCallActive /\ ~isCallActive') => Len(recs') = Len(recs)]_vars

(***************************************************************************)
(* Claims about refreshAIMemory                                            *)
(***************************************************************************)
\* C11: a refreshAIMemory in which something failed (a store read, the
\* request, a read of the body, or persisting the artifact or the session
\* update of the 'complete' event) has called onError by the time it
\* resolves.
C11_EveryFailureReachesOnError ==
    \A i \in Ops :
        (/\ ops[i].pc = "done"
         /\ ops[i].kind = "refresh"
         /\ ops[i].fail # "no")
        => \E n \in 1..Len(ops[i].calls) : ops[i].calls[n] = "onError"

\* How many times a call of refreshAIMemory has called onComplete.
OnCompleteCalls(op) ==
    IF op.pc = "idle" THEN 0
    ELSE Cardinality({n \in 1..Len(op.calls) : op.calls[n] = "onComplete"})

\* No deleteSession and no other refreshAIMemory has been called for the
\* session of call i.
OnlyWriter(i) ==
    /\ del.pc = "idle" \/ ops[i].sid \notin del.sids
    /\ \A j \in Ops \ {i} :
          ops[j].pc # "idle" /\ ops[j].kind = "refresh"
          => ops[j].sid # ops[i].sid

\* C12: at the step in which refreshAIMemory calls onComplete for a
\* 'complete' event, the store holds the artifact of that event under the
\* session and the session row carries the update of that event (no
\* deleteSession and no second refresh of the session being involved).
C12_PersistedBeforeOnComplete ==
    [][\A i \in Ops :
          (/\ OnCompleteCalls(ops'[i]) > OnCompleteCalls(ops[i])
           /\ OnlyWriter(i))
          => /\ preprocessed'[ops[i].sid] = Row([embeddings |-> Object(i + 1)])
             /\ sessions'[ops[i].sid] # NoRow
             /\ Value(sessions'[ops[i].sid]).subject = <<"subject", i>>]_vars

\* A refresh of s2, which had no artifact, has called onComplete; the
\* artifact and the subject are stored.
C12_Witness ==
    \E i \in Ops :
        /\ OnCompleteCalls(ops[i]) = 1
        /\ ops[i].sid = "s2"
        /\ OnlyWriter(i)
        /\ preprocessed["s2"] = Row([embeddings |-> Object(i + 1)])
        /\ sessions["s2"] # NoRow
        /\ Value(sessions["s2"]).subject = <<"subject", i>>

(***************************************************************************)
(* Claims about the settings                                               *)
(***************************************************************************)
\* C13: settings never saved read as the defaults, and when a saveSettings
\* has completed getSettings returns, for every key of the object given, the
\* value given and, for every other key, the value it returned before the
\* call.
C13_SaveSettingsMerges ==
    /\ settings = NoRow => GetSettings(settings) = DEFAULT_SETTINGS
    /\ saves = 0 => settings = NoRow
    /\ save.pc = "done" =>
          /\ DOMAIN GetSettings(settings)
                = DOMAIN save.before \cup DOMAIN save.partial
          /\ \A k \in DOMAIN GetSettings(settings) :
                GetSettings(settings)[k] =
                    IF k \in DOMAIN save.partial THEN save.partial[k]
                    ELSE save.before[k]

\* A second saveSettings has completed; it gave one key only, and another
\* key keeps the value the first call gave it, which is not its default.
C13_Witness ==
    /\ save.pc = "done"
    /\ saves = 2
    /\ DOMAIN save.partial = {"image_model"}
    /\ save.partial["image_model"] = "custom"
    /\ GetSettings(settings)["chatbot_model"] = "custom"
    /\ GetSettings(settings)["training_model"] = "gemini-3-flash-preview"

(***************************************************************************)
(* Claims about sendMessage and the message list                           *)
(***************************************************************************)
\* The messages of the rows of the messages table, whatever the session.
StoredMessages ==
    UNION {{Value(messages[s])[k] : k \in 1..Len(Value(messages[s]))} :
             s \in {x \in SessionIds : messages[x] # NoRow}}

\* C17: when the HTTP call of sendMessage fails (the fetch rejects or the
\* status is not 2xx) the operation rejects having issued exactly one
\* request, and it has written nothing: no message of it is in the messages
\* table, no image of it in the images table, and no preview of it on a
\* session.
C17_FailedSendWritesNothing ==
    \A i \in Ops :
        (/\ ops[i].pc = "failed"
         /\ ops[i].kind = "chat"
         /\ ops[i].fail \in {"network", "status"})
        => /\ ops[i].requests = 1
           /\ \A m \in StoredMessages : m[2] # i
           /\ \A row \in images : row.image_id[2] # i
           /\ \A s \in SessionIds :
                sessions[s] # NoRow => Value(sessions[s]).preview # <<"ai", i>>

\* A sendMessage has failed at its HTTP call on a session whose message list
\* an earlier, successful sendMessage has filled.
C17_Witness ==
    \E i, j \in Ops :
        /\ ops[i].pc = "failed"
        /\ ops[i].kind = "chat"
        /\ ops[i].fail \in {"network", "status"}
        /\ ops[j].pc = "done"
        /\ ops[j].kind = "chat"
        /\ ops[j].sid = ops[i].sid
        /\ messages[ops[i].sid] # NoRow
        /\ Len(Value(messages[ops[i].sid])) = 2

IsPrefix(a, b) ==
    /\ Len(a) <= Len(b)
    /\ \A k \in 1..Len(a) : a[k] = b[k]

\* C20: under addMessage the message list of a session only grows, whatever
\* the interleaving: as long as the row is not removed, every step leaves
\* the stored list a prefix of the new one.
C20_MessageListAppendOnly ==
    [][\A s \in SessionIds :
          (messages[s] # NoRow /\ messages'[s] # NoRow)
          => IsPrefix(Value(messages[s]), Value(messages'[s]))]_vars

\* The assistant messages of a response: the ai_messages list when there
\* is one, the single ai_message otherwise.
Replies(r) ==
    IF r.ai_messages # None THEN r.ai_messages[1]
    ELSE IF r.ai_message # None THEN <<r.ai_message[1]>> ELSE <<>>

\* C18: after a successful sendMessage the preview of the session is the
\* first 50 characters of the content of the latest assistant reply of the
\* response, followed by "..." exactly when the content is longer than 50
\* characters, for a response with a single ai_message and for a response
\* with an ai_messages list (the reply having some content).
C18_PreviewOfLatestReply ==
    (/\ replyPc = "done"
     /\ (response.ai_message = None) # (response.ai_messages = None)
     /\ Replies(response) # <<>>
     /\ Replies(response)[Len(Replies(response))].content # <<>>)
    => LET latest == Replies(response)[Len(Replies(response))].content
       IN  /\ Len(latest) <= PreviewLimit => sessionPreview = latest
           /\ Len(latest) > PreviewLimit =>
                sessionPreview = SubSeq(latest, 1, PreviewLimit) \o Ellipsis

\* C19: after a successful sendMessage with no other writer the stored list
\* is the list before the call, then the user message of the response, then
\* its assistant messages in the order of the response, each with the image
\* ids the backend assigned; no stored image is a blob URL.
C19_StoredListIsBeforePlusResponse ==
    replyPc = "done"
    => /\ stored = listBefore
                   \o (IF response.user_message = None THEN <<>>
                       ELSE <<response.user_message[1]>>)
                   \o Replies(response)
       /\ \A k \in 1..Len(stored) :
            \A n \in 1..Len(stored[k].images) :
                stored[k].images[n][1] = "id"

\* A call with a file has ended on a session that had messages: two
\* assistant messages of a list were stored, an image of the response is
\* shown by its blob URL and stored by its id.
C19_Witness ==
    /\ replyPc = "done"
    /\ file
    /\ listBefore # <<>>
    /\ response.ai_messages # None
    /\ Len(response.ai_messages[1]) = 2
    /\ result.user_message # None
    /\ result.user_message[1].images = <<BlobUrl(ImageId(1))>>
    /\ result.ai_messages[1][2].images = <<BlobUrl(ImageId(2))>>
    /\ stored[Len(stored)].images = <<ImageId(2)>>

(***************************************************************************)
(* Claims about a failed decode                                            *)
(***************************************************************************)
\* The chunks turn t has handed to playAudioChunk.
SentChunks(t) == {Chunk(t, k) : k \in 1..turns[t].sent}

\* No turn after t has begun.
LastTurn(t) == \A u \in Turns : u > t => turns[u].st = "none"

\* C22: a chunk whose decode fails is dropped without disturbing the rest of
\* the turn: the pending-decode counter counts exactly the decodes still
\* outstanding; a dropped chunk is neither queued nor played; while the
\* call is active, no call has ended before it (ending a call clears the
\* queue) and no later utterance has cleared
\* the queue, every chunk of the turn is decoding, dropped, queued or has
\* been started; and a finished callback is never left pending with nothing
\* queued, decoding or playing once its deferred check has run.
C22_FailedDecodeIsDropped ==
    /\ pendingDecodes = Cardinality(decoding)
    /\ \A c \in dropped : c \notin Range(played) /\ c \notin Range(audioQueue)
    /\ \A t \in Turns :
         (isCallActive /\ callsStarted = 1 /\ LastTurn(t))
         => \A c \in SentChunks(t) :
              \/ c \in decoding
              \/ c \in dropped
              \/ c \in Range(audioQueue)
              \/ c \in Range(played)
    /\ (/\ audioQueue = <<>>
        /\ ~isPlaying
        /\ pendingDecodes = 0
        /\ onAudioFinished # NoCallback)
       => onAudioFinished \in checkTimers

\* The first chunk of a turn failed to decode, the second was played and the
\* callback of the turn has been invoked.
C22_Witness ==
    \E t \in Turns :
        /\ isCallActive
        /\ finishedCalls[t] = 1
        /\ Chunk(t, 1) \in dropped
        /\ Chunk(t, 2) \in Range(played)
        /\ pendingDecodes = 0

(***************************************************************************)
(* Claims about the dispatch of the streaming loops                        *)
(***************************************************************************)
\* The callback that matches a discriminator.
Matching(m, disc) ==
    IF m = "voice"
    THEN CASE disc = "t" -> "onText"
           [] disc = "a" -> "onAudio"
           [] disc = "s" -> "onStatus"
           [] disc = "d" -> "onDone"
           [] disc = "e" -> "onError"
           [] OTHER -> "none"
    ELSE CASE disc = "c" -> "onComplete"
           [] disc = "e" -> "onError"
           [] OTHER -> "onProgress"

\* C23: a parsed record is delivered only to the callback that matches its
\* discriminator: every callback invoked was invoked for a record of the
\* body whose discriminator it matches.
C23_OnlyMatchingCallback ==
    \A i \in 1..Len(dispatched) :
        \E n \in 1..Len(events) :
            /\ WellFormed(events[n])
            /\ dispatched[i].arg = Content(events[n], n)
            /\ dispatched[i].cb = Matching(mode, events[n].disc)

\* C30: at the end of the stream the text left in the buffer without a
\* newline is discarded: when the body does not end with a newline, the
\* callbacks invoked when the loop has ended are exactly those of the lines
\* before the last one, and the ReadEnd step itself invokes none.
C30_UnterminatedLineDiscarded ==
    (streamPc = "done" /\ ~terminated /\ events # <<>>)
    => dispatched = EventCalls(Front(events), 1, TRUE, mode, handlers)

\* The body ended with a well-formed 'error' event that had no newline, after
\* an event that was dispatched, every callback being supplied.
C30_Witness ==
    /\ streamPc = "done"
    /\ ~terminated
    /\ handlers = Handlers(mode)
    /\ Len(events) >= 2
    /\ Last(events) = [form |-> "event", disc |-> "e"]
    /\ Len(dispatched) = Len(events) - 1
    /\ buffer = LineBytes(Last(events), Len(events))

(***************************************************************************)
(* Claims about the images table                                           *)
(***************************************************************************)
\* C27: saveImage is an upsert keyed by (session, image id): the images
\* table never holds two rows of one pair, and once a saveImage of a pair
\* has returned, getImage returns the data of the one that returned last.
C27_OneRowPerImage ==
    /\ \A r1, r2 \in imageRows :
         (r1.session_id = r2.session_id /\ r1.image_id = r2.image_id)
         => r1 = r2
    /\ \A sid \in SessionIds, imageId \in ImageNames :
         lastSaved[<<sid, imageId>>] # 0
         => GetImage(imageRows, sid, imageId)[1].data
                = lastSaved[<<sid, imageId>>]

(***************************************************************************)
(* Claims about updateSession                                              *)
(***************************************************************************)
\* C28: updateSession on an id that is not in the sessions table returns
\* null and leaves the table as it was, creating no row; on a known id it
\* stores and returns the previous record with exactly the given fields
\* overwritten, the other rows staying as they were.
C28_UpdateSessionUpdatesOnlyKnown ==
    update.pc = "done" =>
        LET prev == update.before[update.id]
        IN  IF prev = NoRow
            THEN /\ update.ret = Null
                 /\ sessionTable = update.before
            ELSE /\ update.ret # Null
                 /\ DOMAIN update.ret[1] = DOMAIN Value(prev)
                 /\ \A k \in DOMAIN Value(prev) :
                      update.ret[1][k] = IF k \in DOMAIN update.fields
                                         THEN update.fields[k]
                                         ELSE Value(prev)[k]
                 /\ sessionTable = [update.before EXCEPT
                                      ![update.id] = Row(update.ret[1])]

\* After an update that changed the subject of the known session, a call on
\* the unknown id has returned null.
C28_Witness ==
    /\ update.pc = "done"
    /\ updates = 2
    /\ update.id = "s2"
    /\ DOMAIN update.fields = {"preview", "subject"}
    /\ update.ret = Null
    /\ sessionTable["s2"] = NoRow
    /\ Value(sessionTable["s1"]).subject = "a"
    /\ Value(sessionTable["s1"]).preview = "No messages yet."

(***************************************************************************)
(* Claims about getVoiceStatus                                             *)
(***************************************************************************)
\* The whole number of days between a time and the clock.
WholeDays(clock, t) ==
    CHOOSE d \in 0..(MaxElapsedDays + 1) :
        d * MsPerDay <= clock - t /\ clock - t < (d + 1) * MsPerDay

\* C29: for a session with a voice id, with d the whole days since the
\* voice was last used, or created when it was never used, the status is
\* 'expired' when d >= 7, 'warning' when 5 <= d <= 6 and 'active' when
\* d <= 4, and days_remaining is max(0, 7 - d); a session without a voice
\* id, or an unknown session, has has_voice false and status 'none'.
C29_VoiceExpiry ==
    voicePc = "done" =>
        IF voiceRow = NoRow THEN
            ~voiceStatus.has_voice /\ voiceStatus.voice_status = "none"
        ELSE IF Value(voiceRow).wavespeed_voice_id = None THEN
            ~voiceStatus.has_voice /\ voiceStatus.voice_status = "none"
        ELSE
            LET s == Value(voiceRow)
                t == IF s.voice_last_used_at # None
                     THEN s.voice_last_used_at[1] ELSE s.voice_created_at[1]
                d == WholeDays(now, t)
            IN  /\ voiceStatus.has_voice
                /\ d >= 7 => /\ voiceStatus.voice_status = "expired"
                             /\ voiceStatus.days_remaining = 0
                /\ (5 <= d /\ d <= 6) => voiceStatus.voice_status = "warning"
                /\ d <= 4 => voiceStatus.voice_status = "active"
                /\ voiceStatus.days_remaining = (IF 7 - d > 0 THEN 7 - d ELSE 0)

\* A voice created nine days ago and last used a millisecond less than five
\* days ago is reported active with three days remaining.
C29_Witness ==
    /\ voicePc = "done"
    /\ voiceRow # NoRow
    /\ Value(voiceRow).wavespeed_voice_id # None
    /\ Value(voiceRow).voice_created_at = Some(now - 9 * MsPerDay)
    /\ Value(voiceRow).voice_last_used_at = Some(now - (5 * MsPerDay - 1))
    /\ voiceStatus.voice_status = "active"
    /\ voiceStatus.days_remaining = 3

(***************************************************************************)
(* Claims about the uploads                                                *)
(***************************************************************************)
\* C21: uploadFile contains the errors of single files: when a call has
\* ended other than by handing over to the ZIP selection, every file of the
\* batch that has a name is on the returned uploaded list, and stored, or on
\* the returned rejected list with a reason.
C21_EveryFileReported ==
    (batch.pc = "done" /\ batch.ret.kind # "zip")
    => \A i \in 1..Len(batch.files) :
         batch.files[i].named
         => \/ /\ \E k \in 1..Len(batch.ret.uploaded) :
                     batch.ret.uploaded[k].original_name = i
               /\ i \in batch.stored
            \/ \E k \in 1..Len(batch.ret.rejected) :
                  /\ batch.ret.rejected[k].name = i
                  /\ batch.ret.rejected[k].reason # ""

\* The text uploads of a session, in the table a call of checkRefreshReady
\* read.
TextUploads(rows, sid) ==
    {row \in rows : row.session_id = sid /\ row.type = "text"}

\* C26: checkRefreshReady(sessionId) returns ready if and only if the
\* session has a text upload and every text upload of the session has a
\* subject, whatever calls of uploadFile, setSubject and deleteUploadedFile
\* came before and whatever voice uploads there are.
C26_ReadyIffAllTextHaveSubject ==
    ready.pc = "done" =>
        (ready.ready <=>
            /\ TextUploads(ready.rows, ready.sid) # {}
            /\ \A u \in TextUploads(ready.rows, ready.sid) : u.subject # None)

\* After an upload of a text file and of a voice file, and a subject given
\* to the text file only, checkRefreshReady has returned ready.
C26_Witness ==
    /\ ready.pc = "done"
    /\ ready.sid = "s1"
    /\ ready.ready
    /\ \E u \in ready.rows :
          u.session_id = "s1" /\ u.type = "voice" /\ u.subject = None
    /\ \E u \in ready.rows :
          u.session_id = "s1" /\ u.type = "text" /\ u.subject # None

(***************************************************************************)
(* Claims about the warm-up and about the destructive actions              *)
(***************************************************************************)
\* C25: warmupModels never rejects: when the request fails or the response
\* is not ok it resolves to { status: 'error' }; and the call that fired it
\* is listening whatever becomes of it.
C25_WarmupNeverRejects ==
    \A k \in 1..Len(warmups) :
        /\ warmups[k].pc # "rejected"
        /\ (warmups[k].pc # "fetching" /\ warmups[k].outcome # "ok")
           => (warmups[k].pc = "resolved" /\ warmups[k].value = "status: error")

\* C24: clearChatHistory and deleteSession are called only by a handler
\* whose confirmation dialog returned true; while no dialog has returned
\* true, the store, the displayed messages and the displayed session list
\* are as they were.
C24_DestructiveOnlyAfterConfirm ==
    /\ \A k \in 1..Len(uiOps) : uiOps[k].called => uiOps[k].answer
    /\ (\A k \in 1..Len(uiOps) : ~uiOps[k].answer)
       => /\ uiStore = [rows |-> [t \in Range(DeleteOrder) |-> SessionIds],
                        messages |-> [sid \in SessionIds |->
                                         IF sid = "s1" THEN 2 ELSE 1]]
          /\ shownSessions = <<"s1", "s2">>
          /\ shownMessages = 2
          /\ \A k \in 1..Len(uiOps) : uiOps[k].pc = "returned"

\* One dialog was dismissed and its handler returned; another was confirmed
\* and the history it was about is cleared.
C24_Witness ==
    /\ Len(uiOps) = 2
    /\ uiOps[1].kind = "clear" /\ ~uiOps[1].answer /\ uiOps[1].pc = "returned"
    /\ uiOps[2].kind = "clear" /\ uiOps[2].answer /\ uiOps[2].pc = "returned"
    /\ uiStore.messages["s1"] = 0
    /\ shownMessages = 0

(***************************************************************************)
(* Claims about the cache flag across chat and voice                       *)
(***************************************************************************)
\* C31: the cache flag is shared by sendMessage and streamVoiceCall and is
\* kept per session: a sendMessage that builds its request after a
\* streamVoiceCall for the same session had a 2xx response omits the
\* embeddings, and so does a streamVoiceCall after a sendMessage; a request
\* omits the embeddings only if a request for its own session had a 2xx
\* response before.
C31_FlagSharedPerSession ==
    \A j \in Ops :
        Built(ops[j]) =>
            /\ \A i \in ops[j].okBefore :
                  ops[i].kind # "refresh" /\ ops[i].kind # ops[j].kind
                  => ~ops[j].full /\ ops[j].emb = NoPayload(ops[j])
            /\ ~ops[j].full
               => \E i \in Ops \ {j} :
                     /\ ops[i].pc # "idle" /\ ops[i].kind # "refresh"
                     /\ ops[i].sid = ops[j].sid /\ ops[i].gotOk

\* A streamVoiceCall for s1 had a 2xx response, and a sendMessage for s1
\* that came later has sent its request without the embeddings s1 holds,
\* while no request was made for s2.
C31_Witness ==
    \E i, j \in Ops :
        /\ ops[i].pc # "idle" /\ ops[i].kind = "voice" /\ ops[i].gotOk
        /\ Built(ops[j]) /\ ops[j].kind = "chat"
        /\ ops[i].sid = "s1" /\ ops[j].sid = "s1"
        /\ i \in ops[j].okBefore
        /\ ops[j].pre # NoRow
        /\ ops[j].emb = Absent

\* C36: cachedSessions only grows: no step of any operation (a send that
\* fails, deleteSession, a memory refresh that stores a new artifact) takes a
\* session id out of it; and a send that builds its request while its
\* session is in the set omits the embeddings, whatever the store holds.
C36_CachedSessionsOnlyGrows ==
    [][/\ cachedSessions \subseteq cachedSessions'
       /\ \A j \in Ops :
             (/\ ops[j].pc = "build" /\ ops'[j].pc = "fetch"
              /\ ops[j].sid \in cachedSessions)
             => ops'[j].emb = NoPayload(ops'[j])]_vars

\* A send for s1 carried the embeddings s1 held and had a 2xx response; a
\* memory refresh has since stored other embeddings for s1, and s1 is still
\* in cachedSessions.
C36_Witness ==
    \E i, j \in Ops :
        /\ ops[i].pc # "idle" /\ ops[i].kind # "refresh"
        /\ ops[i].sid = "s1" /\ ops[i].gotOk /\ ops[i].emb = Object(1)
        /\ ops[j].pc # "idle" /\ ops[j].kind = "refresh" /\ ops[j].sid = "s1"
        /\ preprocessed["s1"] = Row([embeddings |-> Object(j + 1)])
        /\ "s1" \in cachedSessions

(***************************************************************************)
(* Claims about the history of a chat request                              *)
(***************************************************************************)
\* C32: the history sent with a chat request is the last min(20, n)
\* messages, in stored order, of the list of n messages sendMessage read
\* from the store, and it does not contain the message being sent.
C32_HistoryIsLastTwenty ==
    \A k \in HistSends :
        histOps[k].pc \notin {"idle", "getMessages"} =>
            LET n == Len(histOps[k].read)
                m == IF n < 20 THEN n ELSE 20
            IN  /\ Len(histOps[k].history) = m
                /\ \A i \in 1..m :
                      histOps[k].history[i] = histOps[k].read[n - m + i]
                /\ \A i \in 1..m : histOps[k].history[i] # histOps[k].own

\* A send read a list of 21 messages and sent the last 20 of them; its own
\* message and the reply are stored since.
C32_Witness ==
    \E k \in HistSends :
        /\ histOps[k].pc = "done"
        /\ Len(histOps[k].read) = 21
        /\ Len(histOps[k].history) = 20
        /\ histOps[k].history[1] = histOps[k].read[2]
        /\ \E i \in 1..Len(histList) : histList[i] = histOps[k].own

(***************************************************************************)
(* Claims about playback and about the listening loop                      *)
(***************************************************************************)
\* C34: at most one audio buffer is playing at any time: for every
\* interleaving of decode completions, playback ends, deferred checks and
\* hangups, the buffers started and not ended are none, or the one buffer
\* started last, and the playing flag is set exactly while there is one.
C34_OneBufferAtATime ==
    /\ Cardinality(live) <= 1
    /\ isPlaying <=> live # {}
    /\ live = {source} \ {NoChunk}

\* A second buffer is playing, the first having ended, while a third waits
\* in the queue and the user has hung up.
C34_Witness ==
    /\ Len(played) = 2
    /\ live = {played[2]}
    /\ audioQueue # <<>>
    /\ ~isCallActive

\* C33: while the call is active, a recognition error other than 'aborted'
\* sets a restart timer, and, timers firing, a pending restart timer is
\* followed by a run of startListening, which creates a recognition
\* instance (as far as the model follows instances).
C33_ErrorRestartsListening ==
    /\ [][\A r \in 1..Len(recs) :
            (isCallActive /\ recs[r] # "errored" /\ recs'[r] = "errored")
            => listenTimers' = listenTimers + 1]_vars
    /\ \A n \in 0..(MaxListenRecs - 1) :
          (listenTimers > 0 /\ Len(recs) = n) ~> (Len(recs) > n)

\* The call is active, a recognition session has failed with an error other
\* than 'aborted', and listening has been restarted since with no restart
\* left pending.
C33_Witness ==
    /\ isCallActive
    /\ listenTimers = 0
    /\ \E r \in 1..Len(recs) : recs[r] = "errored" /\ Len(recs) > r

\* The recognition sessions that were started and have neither produced a
\* result or an error nor ended.
LiveRecs == {r \in 1..Len(recs) : recs[r] \in {"new", "listening"}}

\* C37: during an active call at most one recognition session is started
\* and not yet ended, whatever recognition events, restart timers and stream
\* callbacks occur.
C37_OneRecognitionAtATime ==
    isCallActive => Cardinality(LiveRecs) <= 1

(***************************************************************************)
(* Claims about the end of refreshAIMemory                                 *)
(***************************************************************************)
\* C35: when a call of refreshAIMemory has resolved, exactly one of
\* onComplete and onError has been invoked, exactly once.
C35_OneTerminalCallback ==
    \A i \in Ops :
        (ops[i].pc = "done" /\ ops[i].kind = "refresh")
        => Cardinality({n \in 1..Len(ops[i].calls) :
                          ops[i].calls[n] \in {"onComplete", "onError"}}) = 1

====
